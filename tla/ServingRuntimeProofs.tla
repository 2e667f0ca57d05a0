------------------------ MODULE ServingRuntimeProofs ------------------------
(***************************************************************************)
(* Proofs that the serving runtime answers each request at most once, gives *)
(* every admission slot back exactly once, knows exactly the unanswered     *)
(* ids, and shuts down clean: for any number of submissions, any ids, any   *)
(* media requests, capacity, number of cancellations and output length.     *)
(*                                                                         *)
(* The invariant says where a live submission is.  Data holds of the queues *)
(* and dictionaries whatever the owner thread is doing; the other parts of  *)
(* IInv relate them to the owner's place in its loop.                       *)
(***************************************************************************)
EXTENDS ServingRuntime, DequeProofs

Kinds == {"accepted", "token", "done", "error"}

Futures == {"none", "queued", "running", "ready", "failed", "cancelled"}

\* The submission that is between the check and put_nowait of submit.
Inside == {lock} \ {Nobody}

Shapes ==
  /\ call \in [Submissions -> {"new", "inside", "accepted", "refused"}]
  /\ lock \in Submissions \cup {Nobody} /\ preparing \in Submissions \cup {Nobody}
  /\ known \subseteq Ids /\ marks \subseteq Ids
  /\ slots \in 0..Capacity /\ issued \in 0..MaxCancels
  /\ ingress \in Seq(Submissions) /\ mediaWaiting \in Seq(Submissions)
  /\ cancels \in Seq(Ids)
  /\ pending \subseteq Media /\ active \subseteq Submissions /\ engine \subseteq Submissions
  /\ future \in Futures
  /\ events \in [Submissions -> Seq(Kinds)]

\* A live submission is in exactly one place: inside submit, in the ingress
\* queue, in the media table, or in the engine's table.
Places ==
  /\ Live = Inside \cup Range(ingress) \cup pending \cup active
  /\ Inside \cap (Range(ingress) \cup pending \cup active) = {}
  /\ Range(ingress) \cap (pending \cup active) = {}
  /\ pending \cap active = {}
  /\ IsInjective(ingress)
  /\ \A s \in Submissions : call[s] = "inside" <=> lock = s
  /\ \A s \in Submissions : call[s] \in {"new", "refused"} => events[s] = <<>>

\* The media queue holds what is pending but for the one the worker has; what
\* the worker has and is not pending was answered already.
Preparation ==
  /\ IsInjective(mediaWaiting)
  /\ Range(mediaWaiting) = pending \ {preparing}
  /\ preparing = Nobody <=> future = "none"
  /\ preparing \in pending \/ preparing = Nobody \/ Ended(preparing)

Data ==
  /\ Shapes
  /\ Places
  /\ Preparation
  /\ SlotsExact
  /\ KnownExact
  /\ MarksPending
  /\ TerminalIsLast

ControlShapes ==
  /\ stop \in BOOLEAN /\ failure \in BOOLEAN
  /\ left \in Nat
  /\ pc \in {"starting", "loop", "cancels", "prepared", "drain", "admit", "recancels",
            "step", "stopping", "raised", "failing", "draining", "closing", "exited"}

\* A snapshot is never longer than its queue: only the owner takes from it.
Snapshots ==
  /\ pc \in {"drain", "admit"} => left <= Len(ingress)
  /\ pc = "admit" => left > 0
  /\ pc \in {"cancels", "recancels"} => left <= Len(cancels)

\* What the owner's place says of the flags and the tables once it ends.
Ending ==
  /\ stop => lock = Nobody
  /\ pc = "stopping" => stop
  /\ pc = "failing" => failure
  /\ pc \in {"draining", "closing", "exited"} => active = {} /\ pending = {}
  /\ pc \in {"draining", "closing", "exited"} /\ ~failure => stop
  /\ pc \in {"closing", "exited"} /\ ~failure => ingress = <<>>
  /\ pc = "exited" => preparing = Nobody

EngineRunsActive == ~failure /\ pc # "raised" => engine = active

IInv ==
  /\ Data
  /\ ControlShapes
  /\ Snapshots
  /\ Ending
  /\ EngineRunsActive

-----------------------------------------------------------------------------
(* Histories: what a handle was sent.                                      *)

\* What one owner action may send to a handle that has no terminal event yet.
Closing == {<<"done">>, <<"error">>, <<"accepted", "done">>, <<"token", "done">>}

Tails == Closing \cup {<<>>, <<"accepted">>, <<"token">>}

\* A history that ends with its terminal event, if it has one.
WellEnded(e) == \A i \in DOMAIN e : e[i] \in {"done", "error"} => i = Len(e)

HasEnded(e) == \E i \in DOMAIN e : e[i] \in {"done", "error"}

\* Each tail is a short sequence of events that is well ended.
LEMMA TailShape ==
  ASSUME NEW t \in Tails
  PROVE  t \in Seq(Kinds) /\ WellEnded(t) /\ (HasEnded(t) <=> t \in Closing)
<1>1. ASSUME NEW k \in Kinds, t = <<k>>
      PROVE  /\ t \in Seq(Kinds) /\ WellEnded(t)
             /\ HasEnded(t) <=> k \in {"done", "error"}
  <2>1. t \in Seq(Kinds) /\ Len(t) = 1 /\ DOMAIN t = {1} /\ t[1] = k
    BY <1>1
  <2> QED BY <2>1 DEF WellEnded, HasEnded
<1>2. ASSUME NEW k \in {"accepted", "token"}, t = <<k, "done">>
      PROVE  t \in Seq(Kinds) /\ WellEnded(t) /\ HasEnded(t)
  <2>1. t \in Seq(Kinds) /\ Len(t) = 2 /\ DOMAIN t = {1, 2} /\ t[1] = k /\ t[2] = "done"
    BY <1>2 DEF Kinds
  <2> QED BY <2>1 DEF WellEnded, HasEnded
<1>3. CASE t = <<>>
  <2>1. t \in Seq(Kinds) /\ DOMAIN t = {}
    BY <1>3
  <2> QED BY <1>3, <2>1 DEF WellEnded, HasEnded, Closing
<1>4. t = <<>> \/ (\E k \in Kinds : t = <<k>>) \/ (\E k \in {"accepted", "token"} : t = <<k, "done">>)
  BY DEF Tails, Closing, Kinds
<1>5. \A k \in Kinds : <<k>> \in Closing <=> k \in {"done", "error"}
  BY DEF Closing
<1>6. \A k \in {"accepted", "token"} : <<k, "done">> \in Closing
  BY DEF Closing
<1> QED BY <1>1, <1>2, <1>3, <1>4, <1>5, <1>6

\* A tail extends a history that has no terminal event; the history has one
\* afterwards when the tail has one.
LEMMA ExtendHistory ==
  ASSUME NEW e \in Seq(Kinds), WellEnded(e), NEW t \in Tails, HasEnded(e) => t = <<>>
  PROVE  /\ e \o t \in Seq(Kinds) /\ WellEnded(e \o t)
         /\ HasEnded(e \o t) <=> HasEnded(e) \/ t \in Closing
<1>1. t \in Seq(Kinds) /\ WellEnded(t) /\ (HasEnded(t) <=> t \in Closing)
  BY TailShape
<1>2. CASE t = <<>>
  <2>1. e \o t = e
    BY <1>2, ConcatEmptySeq
  <2>2. ~HasEnded(t)
    BY <1>2 DEF HasEnded
  <2> QED BY <1>1, <2>1, <2>2
<1>3. CASE ~HasEnded(e)
  <2>1. /\ Len(e) \in Nat /\ DOMAIN e = 1 .. Len(e)
        /\ Len(t) \in Nat /\ DOMAIN t = 1 .. Len(t)
    BY <1>1, LenProperties
  <2>2. /\ e \o t \in Seq(Kinds) /\ Len(e \o t) = Len(e) + Len(t)
        /\ \A i \in 1 .. Len(e) + Len(t) :
             (e \o t)[i] = IF i <= Len(e) THEN e[i] ELSE t[i - Len(e)]
    BY <1>1, ConcatProperties
  <2>3. DOMAIN (e \o t) = 1 .. Len(e) + Len(t)
    BY <2>2, LenProperties
  <2>4. ASSUME NEW i \in DOMAIN (e \o t), (e \o t)[i] \in {"done", "error"}
        PROVE  i - Len(e) \in DOMAIN t /\ t[i - Len(e)] = (e \o t)[i]
    BY <1>3, <2>1, <2>2, <2>3, <2>4 DEF HasEnded
  <2>5. WellEnded(e \o t)
    <3> SUFFICES ASSUME NEW i \in DOMAIN (e \o t), (e \o t)[i] \in {"done", "error"}
                 PROVE  i = Len(e \o t)
      BY DEF WellEnded
    <3>1. i - Len(e) = Len(t)
      BY <1>1, <2>4 DEF WellEnded
    <3> QED BY <2>1, <2>2, <2>3, <3>1
  <2>6. HasEnded(t) => HasEnded(e \o t)
    <3> SUFFICES ASSUME NEW j \in DOMAIN t, t[j] \in {"done", "error"}
                 PROVE  HasEnded(e \o t)
      BY DEF HasEnded
    <3>1. Len(e) + j \in DOMAIN (e \o t) /\ (e \o t)[Len(e) + j] = t[j]
      BY <2>1, <2>2, <2>3
    <3> QED BY <3>1 DEF HasEnded
  <2>7. HasEnded(e \o t) => HasEnded(t)
    BY <2>4 DEF HasEnded
  <2> QED BY <1>1, <1>3, <2>2, <2>5, <2>6, <2>7
<1> QED BY <1>2, <1>3

\* Live and Ended in terms of histories.
LEMMA LiveIs ==
  /\ \A s : Ended(s) <=> HasEnded(events[s])
  /\ \A s : s \in Live <=> s \in Submissions /\ call[s] \in {"inside", "accepted"} /\ ~Ended(s)
  /\ TerminalIsLast <=> \A s \in Submissions : WellEnded(events[s])
BY DEF Ended, HasEnded, Live, TerminalIsLast, WellEnded

\* Publishing to handles without a terminal event keeps every history well
\* ended, and ends exactly the handles that were sent a closing tail.
LEMMA PublicationEnds ==
  ASSUME events \in [Submissions -> Seq(Kinds)], TerminalIsLast,
         NEW tail \in [Submissions -> Tails],
         \A s \in Submissions : Ended(s) => tail[s] = <<>>,
         events' = [s \in Submissions |-> events[s] \o tail[s]]
  PROVE  /\ events' \in [Submissions -> Seq(Kinds)]
         /\ TerminalIsLast'
         /\ \A s \in Submissions : Ended(s)' <=> Ended(s) \/ tail[s] \in Closing
         /\ \A s \in Submissions : tail[s] = <<>> => events'[s] = events[s]
<1>1. ASSUME NEW s \in Submissions
      PROVE  /\ events'[s] \in Seq(Kinds) /\ WellEnded(events'[s])
             /\ HasEnded(events'[s]) <=> HasEnded(events[s]) \/ tail[s] \in Closing
             /\ tail[s] = <<>> => events'[s] = events[s]
  <2>1. events'[s] = events[s] \o tail[s]
    OBVIOUS
  <2>2. events[s] \in Seq(Kinds) /\ tail[s] \in Tails
    OBVIOUS
  <2>3. WellEnded(events[s]) /\ (HasEnded(events[s]) => tail[s] = <<>>)
    BY LiveIs
  <2>4. events[s] \o <<>> = events[s]
    BY <2>2, ConcatEmptySeq
  <2> QED BY <2>1, <2>2, <2>3, <2>4, ExtendHistory
<1>2. events' \in [Submissions -> Seq(Kinds)]
  BY <1>1
<1>3. \A s \in Submissions : Ended(s)' <=> HasEnded(events'[s])
  BY DEF Ended, HasEnded
<1>4. TerminalIsLast'
  BY <1>1 DEF TerminalIsLast, WellEnded
<1> QED BY <1>1, <1>2, <1>3, <1>4, LiveIs

\* Publish(S, t): the set S of live submissions is sent the tail t.
LEMMA PublishEnds ==
  ASSUME Data, NEW S \in SUBSET Live, NEW t \in Tails, events' = Publish(S, t), call' = call
  PROVE  /\ events' \in [Submissions -> Seq(Kinds)]
         /\ TerminalIsLast'
         /\ \A s \in Submissions : Ended(s)' <=> Ended(s) \/ (s \in S /\ t \in Closing)
         /\ \A s \in Submissions \ S : events'[s] = events[s]
         /\ Live' = IF t \in Closing THEN Live \ S ELSE Live
<1> DEFINE tail == [s \in Submissions |-> IF s \in S THEN t ELSE <<>>]
<1>1. tail \in [Submissions -> Tails]
  BY DEF Tails
<1>2. events' = [s \in Submissions |-> events[s] \o tail[s]]
  BY DEF Publish
<1>3. \A s \in Submissions : Ended(s) => tail[s] = <<>>
  BY LiveIs
<1>4. \A s \in Submissions : tail[s] \in Closing <=> s \in S /\ t \in Closing
  BY DEF Closing
<1>5. /\ events' \in [Submissions -> Seq(Kinds)]
      /\ TerminalIsLast'
      /\ \A s \in Submissions : Ended(s)' <=> Ended(s) \/ tail[s] \in Closing
      /\ \A s \in Submissions : tail[s] = <<>> => events'[s] = events[s]
  <2> HIDE DEF tail
  <2> QED BY <1>1, <1>2, <1>3, PublicationEnds DEF Data, Shapes
<1>6. \A s \in Submissions \ S : tail[s] = <<>>
  OBVIOUS
<1> HIDE DEF tail
<1>7. \A s \in Submissions : Ended(s)' <=> Ended(s) \/ (s \in S /\ t \in Closing)
  BY <1>4, <1>5
<1>8. Live' = IF t \in Closing THEN Live \ S ELSE Live
  <2>1. Live' = {s \in Submissions : call[s] \in {"inside", "accepted"} /\ ~Ended(s)'}
    BY DEF Live
  <2> QED BY <1>7, <2>1 DEF Live
<1> QED BY <1>5, <1>6, <1>7, <1>8

-----------------------------------------------------------------------------
(* Facts that the steps share.                                             *)

\* The two community modules name the elements of a sequence differently.
LEMMA ToSetIsRange == \A q : ToSet(q) = Range(q)
  BY DEF ToSet, Range

\* Without a new event and without a change of call the same handles are live.
LEMMA SameEvents ==
  ASSUME UNCHANGED <<events, call>>
  PROVE  /\ Live' = Live /\ (TerminalIsLast => TerminalIsLast')
         /\ \A s \in Submissions : Ended(s)' <=> Ended(s)
  BY DEF Live, Ended, TerminalIsLast

\* The submission that holds the lock is one, and it is live.
LEMMA Holder ==
  ASSUME Data, NEW s \in Submissions
  PROVE  /\ s \in Inside <=> lock = s
         /\ s \in Live => Id[s] \in known
         /\ \A t \in Live : s \in Live /\ Id[s] = Id[t] => s = t
  BY RuntimeAssumption DEF Data, Inside, KnownExact

\* Nothing of Data speaks of the owner's place, the snapshot or the flags, and
\* of the cancellation queue only its type.
LEMMA SameData ==
  ASSUME Data, issued' \in 0..MaxCancels, cancels' \in Seq(Ids),
         UNCHANGED <<call, lock, known, slots, ingress, marks, pending, mediaWaiting, preparing,
                     future, active, engine, events>>
  PROVE  Data'
<1>1. Live' = Live /\ TerminalIsLast' /\ \A s \in Submissions : Ended(s)' <=> Ended(s)
  BY SameEvents DEF Data
<1>2. Shapes'
  BY DEF Data, Shapes
<1>3. Places'
  BY <1>1 DEF Data, Places, Inside
<1>4. Preparation'
  BY <1>1 DEF Data, Shapes, Preparation
<1>5. SlotsExact' /\ KnownExact' /\ MarksPending'
  BY <1>1 DEF Data, SlotsExact, KnownExact, MarksPending
<1> QED BY <1>1, <1>2, <1>3, <1>4, <1>5 DEF Data

\* _forget_request_id of submissions that end: known and marks stay exact.
LEMMA ForgetEnds ==
  ASSUME Data, NEW S \in SUBSET Live, Live' = Live \ S, Forget(S),
         UNCHANGED lock,
         \A t \in Range(ingress) : t \in S \/ t \in Range(ingress')
  PROVE  KnownExact' /\ MarksPending' /\ known' \subseteq Ids /\ marks' \subseteq Ids
<1>1. known' = {Id[s] : s \in Live \ S}
  BY DEF Data, KnownExact, Forget
<1>2. KnownExact'
  BY <1>1 DEF Data, KnownExact
<1>3. MarksPending'
  <2> SUFFICES ASSUME NEW m \in marks'
               PROVE  \E t \in Live' : Id[t] = m /\ (lock' = t \/ t \in Range(ingress'))
    BY ToSetIsRange DEF MarksPending
  <2>1. m \in marks /\ \A s \in S : Id[s] # m
    BY DEF Forget
  <2>2. PICK t \in Live : Id[t] = m /\ (lock = t \/ t \in Range(ingress))
    BY <2>1, ToSetIsRange DEF Data, MarksPending
  <2> QED BY <2>1, <2>2
<1>4. known' \subseteq Ids /\ marks' \subseteq Ids
  BY DEF Forget, Data, Shapes
<1> QED BY <1>2, <1>3, <1>4

\* The slots that belong to no queue: the worker's and the one of submit.
Held == (IF preparing = Nobody THEN 0 ELSE 1) + (IF lock = Nobody THEN 0 ELSE 1)

\* The count stays exact when it drops by what the queues and the holders lost.
LEMMA SlotsMoved ==
  ASSUME Data, ingress' \in Seq(Submissions), mediaWaiting' \in Seq(Submissions),
         NEW gone \in Nat, slots' = slots - gone,
         Len(ingress) + Len(mediaWaiting) + Held
           = Len(ingress') + Len(mediaWaiting') + Held' + gone
  PROVE  SlotsExact' /\ slots' \in 0..Capacity
<1>1. Len(ingress') \in Nat /\ Len(mediaWaiting') \in Nat /\ Held' \in Nat
  BY EmptyProperties DEF Held
<1>2. slots = Len(ingress) + Len(mediaWaiting) + Held /\ slots \in 0..Capacity
  BY DEF Data, Shapes, SlotsExact, Held
<1>3. SlotsExact' <=> slots' = Len(ingress') + Len(mediaWaiting') + Held'
  BY DEF SlotsExact, Held
<1>4. slots' = Len(ingress') + Len(mediaWaiting') + Held'
  BY <1>1, <1>2
<1>5. slots' \in 0..Capacity
  <2>1. Capacity \in Nat
    BY RuntimeAssumption
  <2>2. slots' >= 0
    BY <1>1, <1>4
  <2> QED BY <1>2, <2>1, <2>2
<1> QED BY <1>3, <1>4, <1>5

-----------------------------------------------------------------------------
(* The network side keeps Data.                                            *)

\* A submission that passes the check is live, inside submit, and known.
LEMMA SubmitCheckKeepsData ==
  ASSUME Data, NEW s \in Submissions, SubmitCheck(s)
  PROVE  Data'
<1>1. /\ call[s] = "new" /\ lock = Nobody /\ events[s] = <<>>
      /\ UNCHANGED <<issued, ingress, cancels, marks, active, engine, events, pending,
                     mediaWaiting, preparing, future>>
  BY DEF Data, Places, SubmitCheck, owner, media
<1>2. ~Ended(s) /\ s \notin Live /\ Inside = {}
  BY <1>1, LiveIs DEF Ended, Inside
<1>3. /\ TerminalIsLast'
      /\ \A t \in Submissions : Ended(t)' <=> Ended(t)
  BY <1>1 DEF Data, Ended, TerminalIsLast
<1>4. ASSUME call' = [call EXCEPT ![s] = "inside"], lock' = s, known' = known \cup {Id[s]},
             slots' = slots + 1, Id[s] \notin known, slots < Capacity
      PROVE  Data'
  <2>1. Live' = Live \cup {s}
    <3>1. \A t \in Submissions : t \in Live' <=> call'[t] \in {"inside", "accepted"} /\ ~Ended(t)
      BY <1>3 DEF Live
    <3>2. \A t \in Submissions : call'[t] = IF t = s THEN "inside" ELSE call[t]
      BY <1>4 DEF Data, Shapes
    <3>3. Live' \subseteq Submissions /\ Live \subseteq Submissions
      BY DEF Live
    <3> QED BY <1>2, <3>1, <3>2, <3>3, LiveIs
  <2>2. Shapes'
    <3>1. slots' \in 0..Capacity
      BY <1>4, RuntimeAssumption DEF Data, Shapes
    <3>2. known' \subseteq Ids
      BY <1>4 DEF Data, Shapes, Ids
    <3> QED BY <1>1, <1>4, <3>1, <3>2 DEF Data, Shapes
  <2>3. Places'
    <3>1. Inside' = {s}
      BY <1>4, RuntimeAssumption DEF Inside
    <3>2. \A t \in Submissions : call'[t] = "inside" <=> lock' = t
      BY <1>1, <1>4, RuntimeAssumption DEF Data, Shapes, Places
    <3>3. \A t \in Submissions : call'[t] \in {"new", "refused"} => events'[t] = <<>>
      BY <1>1, <1>4 DEF Data, Shapes, Places
    <3> QED BY <1>1, <1>2, <2>1, <3>1, <3>2, <3>3 DEF Data, Places
  <2>4. Preparation'
    BY <1>1, <1>3 DEF Data, Shapes, Preparation
  <2>5. SlotsExact'
    BY <1>1, <1>4, EmptyProperties, RuntimeAssumption DEF Data, Shapes, SlotsExact
  <2>6. KnownExact'
    BY <1>4, <2>1 DEF Data, KnownExact
  <2>7. MarksPending'
    <3>1. \A t \in Live : t # lock
      BY <1>1, LiveIs, RuntimeAssumption
    <3> QED BY <1>1, <2>1, <3>1 DEF Data, MarksPending
  <2> QED BY <1>3, <2>2, <2>3, <2>4, <2>5, <2>6, <2>7 DEF Data
<1>5. ASSUME call' = [call EXCEPT ![s] = "refused"], UNCHANGED <<lock, known, slots>>
      PROVE  Data'
  <2>1. \A t \in Submissions : call'[t] = IF t = s THEN "refused" ELSE call[t]
    BY <1>5 DEF Data, Shapes
  <2>2. Live' = Live
    BY <1>1, <1>3, <2>1 DEF Live
  <2>3. Places'
    BY <1>1, <1>5, <2>1, <2>2, RuntimeAssumption DEF Data, Places, Inside
  <2>4. Preparation'
    BY <1>1, <1>3 DEF Data, Shapes, Preparation
  <2>5. Shapes'
    BY <1>1, <1>5 DEF Data, Shapes
  <2>6. SlotsExact' /\ KnownExact' /\ MarksPending'
    BY <1>1, <1>5, <2>2 DEF Data, SlotsExact, KnownExact, MarksPending
  <2> QED BY <1>3, <2>3, <2>4, <2>5, <2>6 DEF Data
<1> QED BY <1>4, <1>5 DEF SubmitCheck, Unique, Room

\* put_nowait moves the submission from submit to the ingress queue.
LEMMA SubmitPutKeepsData ==
  ASSUME Data, NEW s \in Submissions, SubmitPut(s)
  PROVE  Data'
<1>1. /\ lock = s /\ lock' = Nobody /\ ingress' = Append(ingress, s)
      /\ call' = [call EXCEPT ![s] = "accepted"]
      /\ UNCHANGED <<issued, known, slots, cancels, marks, active, engine, events, pending,
                     mediaWaiting, preparing, future>>
  BY DEF SubmitPut, owner, media
<1>2. call[s] = "inside" /\ Inside = {s} /\ Inside' = {} /\ s # Nobody
  BY <1>1, RuntimeAssumption DEF Data, Places, Inside
<1>3. s \notin Range(ingress) \cup pending \cup active /\ ingress \in Seq(Submissions)
      /\ IsInjective(ingress)
  BY <1>2 DEF Data, Places, Shapes
<1>4. /\ ingress' \in Seq(Submissions) /\ Range(ingress') = Range(ingress) \cup {s}
      /\ IsInjective(ingress') /\ Len(ingress') = Len(ingress) + 1 /\ Len(ingress) \in Nat
  BY <1>1, <1>3, AppendNewProperties, EmptyProperties
<1>5. \A t \in Submissions : call'[t] = IF t = s THEN "accepted" ELSE call[t]
  BY <1>1 DEF Data, Shapes
<1>6. Live' = Live /\ TerminalIsLast' /\ \A t \in Submissions : Ended(t)' <=> Ended(t)
  BY <1>1, <1>2, <1>5 DEF Data, Live, Ended, TerminalIsLast
<1>7. Shapes'
  BY <1>1, <1>4 DEF Data, Shapes
<1>8. Places'
  <2>1. \A t \in Submissions : call'[t] = "inside" <=> lock' = t
    BY <1>1, <1>2, <1>5, RuntimeAssumption DEF Data, Places
  <2>2. \A t \in Submissions : call'[t] \in {"new", "refused"} => events'[t] = <<>>
    BY <1>1, <1>5 DEF Data, Places
  <2> QED BY <1>1, <1>2, <1>3, <1>4, <1>6, <2>1, <2>2 DEF Data, Places
<1>9. Preparation'
  BY <1>1, <1>6 DEF Data, Shapes, Preparation
<1>10. SlotsExact'
  BY <1>1, <1>2, <1>4, EmptyProperties DEF Data, Shapes, SlotsExact
<1>11. KnownExact'
  BY <1>1, <1>6 DEF Data, KnownExact
<1>12. MarksPending'
  BY <1>1, <1>4, <1>6, ToSetIsRange DEF Data, MarksPending
<1> QED BY <1>6, <1>7, <1>8, <1>9, <1>10, <1>11, <1>12 DEF Data

\* _discard_preparation of a pending request, whose cancellation may have left
\* the cancellation queue in the same step.
LEMMA DiscardKeepsData ==
  ASSUME Data, NEW s \in pending, Discard(s, "done"), cancels' \in Seq(Ids),
         UNCHANGED <<call, lock, issued, ingress, active, engine>>
  PROVE  Data' /\ preparing' = preparing /\ pending' \subseteq pending
<1>1. /\ s \in Live /\ s \in Submissions /\ s \notin Inside \cup Range(ingress) \cup active
      /\ mediaWaiting \in Seq(Submissions) /\ IsInjective(mediaWaiting)
      /\ Len(ingress) \in Nat /\ Len(mediaWaiting) \in Nat
  BY EmptyProperties, LiveIs DEF Data, Places, Shapes, Preparation
<1>2. /\ pending' = pending \ {s} /\ preparing' = preparing
      /\ future' = IF preparing = s /\ future = "queued" THEN "cancelled" ELSE future
      /\ events' = Publish({s}, <<"done">>)
      /\ Forget({s})
  BY DEF Discard
<1>3. /\ events' \in [Submissions -> Seq(Kinds)]
      /\ TerminalIsLast'
      /\ \A t \in Submissions : Ended(t)' <=> Ended(t) \/ t = s
      /\ \A t \in Submissions \ {s} : events'[t] = events[t]
      /\ Live' = Live \ {s}
  <2>1. <<"done">> \in Closing /\ <<"done">> \in Tails /\ {s} \in SUBSET Live
    BY <1>1 DEF Tails, Closing
  <2> QED BY <1>2, <2>1, PublishEnds
<1>4. /\ mediaWaiting' \in Seq(Submissions) /\ IsInjective(mediaWaiting')
      /\ Range(mediaWaiting') = pending' \ {preparing'}
      /\ \E gone \in {0, 1} :
           slots' = slots - gone /\ Len(mediaWaiting) = Len(mediaWaiting') + gone
  <2>1. CASE s \in Range(mediaWaiting)
    <3>1. mediaWaiting' = Without(mediaWaiting, s) /\ slots' = slots - 1
      BY <2>1, ToSetIsRange DEF Discard, ReleaseSlots
    <3>2. /\ mediaWaiting' \in Seq(Submissions) /\ IsInjective(mediaWaiting')
          /\ Range(mediaWaiting') = Range(mediaWaiting) \ {s}
          /\ Len(mediaWaiting') = Len(mediaWaiting) - 1
      BY <1>1, <2>1, <3>1, WithoutProperties
    <3>3. Len(mediaWaiting) = Len(mediaWaiting') + 1
      BY <1>1, <3>2
    <3> QED BY <1>1, <1>2, <3>1, <3>2, <3>3 DEF Data, Preparation
  <2>2. CASE s \notin Range(mediaWaiting)
    <3>1. mediaWaiting' = mediaWaiting /\ slots' = slots
      BY <2>2, ToSetIsRange DEF Discard
    <3>2. s = preparing
      BY <2>2 DEF Data, Preparation
    <3>3. slots' = slots - 0 /\ Len(mediaWaiting) = Len(mediaWaiting') + 0
      BY <1>1, <3>1 DEF Data, Shapes
    <3> QED BY <1>1, <1>2, <3>1, <3>2, <3>3 DEF Data, Preparation
  <2> QED BY <2>1, <2>2
<1>5. SlotsExact' /\ slots' \in 0..Capacity
  <2>1. /\ UNCHANGED <<ingress, lock, preparing>>
        /\ ingress' \in Seq(Submissions) /\ mediaWaiting' \in Seq(Submissions)
        /\ slots \in Int
    BY <1>2, <1>4 DEF Data, Shapes
  <2>2. Held' = Held /\ Held \in Nat
    BY <2>1 DEF Held
  <2>3. PICK gone \in {0, 1} : slots' = slots - gone /\ Len(mediaWaiting) = Len(mediaWaiting') + gone
    BY <1>4
  <2>4. Len(mediaWaiting') \in Nat
    BY <1>4, EmptyProperties
  <2> QED BY <1>1, <2>1, <2>2, <2>3, <2>4, SlotsMoved
<1>6. KnownExact' /\ MarksPending' /\ known' \subseteq Ids /\ marks' \subseteq Ids
  <2>1. {s} \in SUBSET Live /\ Live' = Live \ {s}
    BY <1>1, <1>3
  <2> QED BY <1>2, <2>1, ForgetEnds
<1>7. Shapes'
  BY <1>2, <1>3, <1>4, <1>5, <1>6 DEF Data, Shapes, Futures
<1>8. Places'
  <2>1. Live' = Inside' \cup Range(ingress') \cup pending' \cup active'
    BY <1>1, <1>2, <1>3 DEF Data, Places, Inside
  <2>2. \A t \in Submissions : call'[t] \in {"new", "refused"} => events'[t] = <<>>
    BY <1>1, <1>3, LiveIs DEF Data, Places
  <2> QED BY <1>2, <2>1, <2>2 DEF Data, Places, Inside
<1>9. Preparation'
  BY <1>1, <1>2, <1>3, <1>4, RuntimeAssumption DEF Data, Shapes, Preparation
<1> QED BY <1>2, <1>3, <1>5, <1>6, <1>7, <1>8, <1>9 DEF Data

\* The end of active requests that the owner forgets, with a done or an error.
LEMMA EndActiveKeepsData ==
  ASSUME Data, NEW S \in SUBSET active, NEW t \in Closing,
         active' = active \ S, engine' \in SUBSET engine,
         events' = Publish(S, t), Forget(S), cancels' \in Seq(Ids),
         UNCHANGED <<call, lock, issued, slots, ingress, pending, mediaWaiting, preparing, future>>
  PROVE  Data'
<1>1. S \in SUBSET Live /\ t \in Tails
  BY DEF Data, Places, Tails
<1>2. /\ events' \in [Submissions -> Seq(Kinds)]
      /\ TerminalIsLast'
      /\ \A s \in Submissions : Ended(s)' <=> Ended(s) \/ s \in S
      /\ \A s \in Submissions \ S : events'[s] = events[s]
      /\ Live' = Live \ S
  BY <1>1, PublishEnds
<1>3. KnownExact' /\ MarksPending' /\ known' \subseteq Ids /\ marks' \subseteq Ids
  BY <1>1, <1>2, ForgetEnds
<1>4. Shapes'
  BY <1>2, <1>3 DEF Data, Shapes
<1>5. Places'
  <2>1. \A s \in Submissions : call'[s] \in {"new", "refused"} => events'[s] = <<>>
    BY <1>1, <1>2, LiveIs DEF Data, Places
  <2> QED BY <1>2, <2>1 DEF Data, Places, Inside
<1>6. Preparation'
  BY <1>2 DEF Data, Shapes, Preparation
<1>7. SlotsExact'
  BY DEF Data, SlotsExact
<1> QED BY <1>2, <1>3, <1>4, <1>5, <1>6, <1>7 DEF Data

\* A cancellation ends a pending or an active request, marks one on its way
\* to admission, or finds nothing.
LEMMA ApplyCancellationKeepsData ==
  ASSUME Data, cancels # <<>>, ApplyCancellation
  PROVE  Data'
<1> DEFINE id == Head(cancels)
           ending == Named(active, id) \cap engine
<1>1. cancels' \in Seq(Ids) /\ UNCHANGED <<call, lock, issued, ingress>>
  BY HeadTailProperties DEF ApplyCancellation, Data, Shapes, clients
<1>2. CASE Named(pending, id) # {}
  <2>1. PICK s \in pending : Discard(s, "done") /\ UNCHANGED <<active, engine>>
    BY <1>2 DEF ApplyCancellation, Named
  <2> QED BY <1>1, <2>1, DiscardKeepsData
<1>3. CASE Named(pending, id) = {} /\ Named(active, id) # {}
  <2>1. /\ active' = active \ ending /\ engine' = engine \ ending
        /\ events' = Publish(ending, <<"done">>) /\ Forget(ending)
        /\ UNCHANGED <<slots, pending, mediaWaiting, preparing, future>>
    BY <1>3 DEF ApplyCancellation, media
  <2>2. ending \in SUBSET active /\ <<"done">> \in Closing
    BY DEF Named, Closing
  <2> HIDE DEF ending
  <2> QED BY <1>1, <2>1, <2>2, EndActiveKeepsData
<1>4. CASE Named(pending, id) = {} /\ Named(active, id) = {}
  <2>1. /\ marks' = marks \cup ({id} \cap known)
        /\ UNCHANGED <<known, slots, active, engine, events, pending, mediaWaiting, preparing,
                       future>>
    BY <1>4 DEF ApplyCancellation, media
  <2>2. Live' = Live /\ TerminalIsLast' /\ \A s \in Submissions : Ended(s)' <=> Ended(s)
    BY <1>1, <2>1, SameEvents DEF Data
  <2>3. MarksPending'
    <3> SUFFICES ASSUME id \in known
                 PROVE  \E s \in Live : Id[s] = id /\ (lock = s \/ s \in Range(ingress))
      BY <1>1, <2>1, <2>2, ToSetIsRange DEF Data, MarksPending
    <3>1. PICK s \in Live : Id[s] = id
      BY DEF Data, KnownExact
    <3>2. s \notin pending \cup active
      BY <1>4, <3>1 DEF Named
    <3> QED BY <3>1, <3>2 DEF Data, Places, Inside
  <2>4. Shapes'
    BY <1>1, <2>1 DEF Data, Shapes
  <2>5. Places'
    BY <1>1, <2>1, <2>2 DEF Data, Places, Inside
  <2>6. Preparation'
    BY <2>1, <2>2 DEF Data, Shapes, Preparation
  <2>7. SlotsExact' /\ KnownExact'
    BY <1>1, <2>1, <2>2 DEF Data, SlotsExact, KnownExact
  <2> QED BY <2>2, <2>3, <2>4, <2>5, <2>6, <2>7 DEF Data
<1> QED BY <1>2, <1>3, <1>4

-----------------------------------------------------------------------------
(* The owner's admissions keep Data.                                       *)

\* The head of the ingress queue leaves it.
LEMMA PopIngress ==
  ASSUME Data, ingress # <<>>, ingress' = Tail(ingress)
  PROVE  LET s == Head(ingress) IN
         /\ s \in Submissions /\ s \in Live /\ s \notin Inside \cup pending \cup active
         /\ s # preparing
         /\ ingress' \in Seq(Submissions) /\ IsInjective(ingress')
         /\ Range(ingress') = Range(ingress) \ {s} /\ s \in Range(ingress)
         /\ Len(ingress) \in Nat /\ Len(ingress') = Len(ingress) - 1
<1> DEFINE s == Head(ingress)
<1>1. ingress \in Seq(Submissions) /\ IsInjective(ingress)
  BY DEF Data, Shapes, Places
<1>2. /\ s \in Submissions /\ s \in Range(ingress)
      /\ ingress' \in Seq(Submissions) /\ IsInjective(ingress')
      /\ Range(ingress') = Range(ingress) \ {s}
      /\ Len(ingress) \in Nat /\ Len(ingress') = Len(ingress) - 1
  BY <1>1, PopLeftProperties, EmptyProperties
<1> HIDE DEF s
<1>3. s \in Live /\ s \notin Inside \cup pending \cup active
  BY <1>2 DEF Data, Places
<1>4. s # preparing
  BY <1>2, <1>3, LiveIs, RuntimeAssumption DEF Data, Preparation
<1> QED BY <1>2, <1>3, <1>4 DEF s

\* The head is answered at once, and its slot given back.
LEMMA EndHeadKeepsData ==
  ASSUME Data, ingress # <<>>, ingress' = Tail(ingress), NEW t \in Closing,
         events' = Publish({Head(ingress)}, t), Forget({Head(ingress)}), slots' = slots - 1,
         UNCHANGED <<call, lock, issued, cancels, active, engine, pending, mediaWaiting,
                     preparing, future>>
  PROVE  Data'
<1> DEFINE s == Head(ingress)
<1>1. /\ s \in Submissions /\ s \in Live /\ s \notin Inside \cup pending \cup active
      /\ ingress' \in Seq(Submissions) /\ IsInjective(ingress')
      /\ Range(ingress') = Range(ingress) \ {s} /\ s \in Range(ingress)
      /\ Len(ingress) \in Nat /\ Len(ingress') = Len(ingress) - 1
  BY PopIngress
<1>2. /\ events' = Publish({s}, t) /\ Forget({s})
  OBVIOUS
<1> HIDE DEF s
<1>3. /\ events' \in [Submissions -> Seq(Kinds)]
      /\ TerminalIsLast'
      /\ \A x \in Submissions : Ended(x)' <=> Ended(x) \/ x = s
      /\ \A x \in Submissions \ {s} : events'[x] = events[x]
      /\ Live' = Live \ {s}
  <2>1. t \in Tails /\ {s} \in SUBSET Live
    BY <1>1 DEF Tails
  <2> QED BY <1>2, <2>1, PublishEnds
<1>4. KnownExact' /\ MarksPending' /\ known' \subseteq Ids /\ marks' \subseteq Ids
  <2>1. {s} \in SUBSET Live /\ Live' = Live \ {s}
    BY <1>1, <1>3
  <2> QED BY <1>1, <1>2, <2>1, ForgetEnds
<1>5. SlotsExact' /\ slots' \in 0..Capacity
  <2>1. Held' = Held /\ Held \in Nat /\ slots \in Int /\ Len(mediaWaiting) \in Int
    BY EmptyProperties DEF Held, Data, Shapes
  <2>2. mediaWaiting' \in Seq(Submissions)
    BY DEF Data, Shapes
  <2> QED BY <1>1, <2>1, <2>2, SlotsMoved
<1>6. Shapes'
  BY <1>1, <1>3, <1>4, <1>5 DEF Data, Shapes
<1>7. Places'
  <2>1. \A x \in Submissions : call'[x] \in {"new", "refused"} => events'[x] = <<>>
    BY <1>1, <1>3, LiveIs DEF Data, Places
  <2>2. Live' = Inside' \cup Range(ingress') \cup pending' \cup active'
    BY <1>1, <1>3 DEF Data, Places, Inside
  <2> QED BY <1>1, <2>1, <2>2 DEF Data, Places, Inside
<1>8. Preparation'
  BY <1>3 DEF Data, Shapes, Preparation
<1> QED BY <1>3, <1>4, <1>5, <1>6, <1>7, <1>8 DEF Data

\* The head joins the engine, and its slot is given back.
LEMMA AdmitHeadKeepsData ==
  ASSUME Data, ingress # <<>>, ingress' = Tail(ingress), Id[Head(ingress)] \notin marks,
         active' = active \cup {Head(ingress)}, engine' = engine \cup {Head(ingress)},
         events' = Publish({Head(ingress)}, <<"accepted">>), slots' = slots - 1,
         UNCHANGED <<call, lock, issued, cancels, known, marks, pending, mediaWaiting,
                     preparing, future>>
  PROVE  Data'
<1> DEFINE s == Head(ingress)
<1>1. /\ s \in Submissions /\ s \in Live /\ s \notin Inside \cup pending \cup active
      /\ ingress' \in Seq(Submissions) /\ IsInjective(ingress')
      /\ Range(ingress') = Range(ingress) \ {s} /\ s \in Range(ingress)
      /\ Len(ingress) \in Nat /\ Len(ingress') = Len(ingress) - 1
  BY PopIngress
<1>2. /\ events' = Publish({s}, <<"accepted">>) /\ Id[s] \notin marks
      /\ active' = active \cup {s} /\ engine' = engine \cup {s}
  OBVIOUS
<1> HIDE DEF s
<1>3. /\ events' \in [Submissions -> Seq(Kinds)]
      /\ TerminalIsLast'
      /\ \A x \in Submissions : Ended(x)' <=> Ended(x)
      /\ \A x \in Submissions \ {s} : events'[x] = events[x]
      /\ Live' = Live
  <2>1. <<"accepted">> \in Tails /\ <<"accepted">> \notin Closing /\ {s} \in SUBSET Live
    BY <1>1 DEF Tails, Closing
  <2> QED BY <1>2, <2>1, PublishEnds
<1>4. KnownExact' /\ MarksPending'
  <2>1. ASSUME NEW m \in marks
        PROVE  \E x \in Live' : Id[x] = m /\ (lock' = x \/ x \in Range(ingress'))
    <3>1. PICK x \in Live : Id[x] = m /\ (lock = x \/ x \in Range(ingress))
      BY ToSetIsRange DEF Data, MarksPending
    <3> QED BY <1>1, <1>2, <1>3, <3>1
  <2> QED BY <1>3, <2>1, ToSetIsRange DEF Data, KnownExact, MarksPending
<1>5. SlotsExact' /\ slots' \in 0..Capacity
  <2>1. Held' = Held /\ Held \in Nat /\ slots \in Int /\ Len(mediaWaiting) \in Int
    BY EmptyProperties DEF Held, Data, Shapes
  <2>2. mediaWaiting' \in Seq(Submissions)
    BY DEF Data, Shapes
  <2> QED BY <1>1, <2>1, <2>2, SlotsMoved
<1>6. Shapes'
  BY <1>1, <1>2, <1>3, <1>5 DEF Data, Shapes
<1>7. Places'
  <2>1. \A x \in Submissions : call'[x] \in {"new", "refused"} => events'[x] = <<>>
    BY <1>1, <1>3, LiveIs DEF Data, Places
  <2>2. Live' = Inside' \cup Range(ingress') \cup pending' \cup active'
    BY <1>1, <1>2, <1>3 DEF Data, Places, Inside
  <2>3. /\ Inside' \cap (Range(ingress') \cup pending' \cup active') = {}
        /\ Range(ingress') \cap (pending' \cup active') = {}
        /\ pending' \cap active' = {}
    BY <1>1, <1>2 DEF Data, Places, Inside
  <2> QED BY <1>1, <2>1, <2>2, <2>3 DEF Data, Places
<1>8. Preparation'
  BY <1>3 DEF Data, Shapes, Preparation
<1> QED BY <1>3, <1>4, <1>5, <1>6, <1>7, <1>8 DEF Data

\* A media request waits for the worker and keeps its slot.
LEMMA QueueMediaKeepsData ==
  ASSUME Data, ingress # <<>>, ingress' = Tail(ingress), Id[Head(ingress)] \notin marks,
         Head(ingress) \in Media, pending' = pending \cup {Head(ingress)},
         mediaWaiting' = Append(mediaWaiting, Head(ingress)),
         UNCHANGED <<call, lock, issued, cancels, known, slots, marks, active, engine, events,
                     preparing, future>>
  PROVE  Data'
<1> DEFINE s == Head(ingress)
<1>1. /\ s \in Submissions /\ s \in Live /\ s \notin Inside \cup pending \cup active
      /\ s # preparing
      /\ ingress' \in Seq(Submissions) /\ IsInjective(ingress')
      /\ Range(ingress') = Range(ingress) \ {s} /\ s \in Range(ingress)
      /\ Len(ingress) \in Nat /\ Len(ingress') = Len(ingress) - 1
  BY PopIngress
<1>2. /\ s \in Media /\ pending' = pending \cup {s} /\ Id[s] \notin marks
      /\ mediaWaiting' = Append(mediaWaiting, s)
  OBVIOUS
<1> HIDE DEF s
<1>3. Live' = Live /\ TerminalIsLast' /\ \A x \in Submissions : Ended(x)' <=> Ended(x)
  BY SameEvents DEF Data
<1>4. /\ mediaWaiting' \in Seq(Submissions) /\ IsInjective(mediaWaiting')
      /\ Range(mediaWaiting') = Range(mediaWaiting) \cup {s}
      /\ Len(mediaWaiting') = Len(mediaWaiting) + 1 /\ Len(mediaWaiting) \in Nat
  <2>1. mediaWaiting \in Seq(Submissions) /\ IsInjective(mediaWaiting) /\ s \notin Range(mediaWaiting)
    BY <1>1 DEF Data, Shapes, Preparation
  <2> QED BY <1>1, <1>2, <2>1, AppendNewProperties, EmptyProperties
<1>5. KnownExact' /\ MarksPending'
  <2>1. ASSUME NEW m \in marks
        PROVE  \E x \in Live' : Id[x] = m /\ (lock' = x \/ x \in Range(ingress'))
    <3>1. PICK x \in Live : Id[x] = m /\ (lock = x \/ x \in Range(ingress))
      BY ToSetIsRange DEF Data, MarksPending
    <3> QED BY <1>1, <1>2, <1>3, <3>1
  <2> QED BY <1>3, <2>1, ToSetIsRange DEF Data, KnownExact, MarksPending
<1>6. SlotsExact' /\ slots' \in 0..Capacity
  <2>1. Held' = Held /\ Held \in Nat /\ slots \in Int
    BY DEF Held, Data, Shapes
  <2> QED BY <1>1, <1>4, <2>1, SlotsMoved
<1>7. Shapes'
  BY <1>1, <1>2, <1>4, <1>6 DEF Data, Shapes
<1>8. Places'
  <2>1. Live' = Inside' \cup Range(ingress') \cup pending' \cup active'
    BY <1>1, <1>2, <1>3 DEF Data, Places, Inside
  <2>2. /\ Inside' \cap (Range(ingress') \cup pending' \cup active') = {}
        /\ Range(ingress') \cap (pending' \cup active') = {}
        /\ pending' \cap active' = {}
    BY <1>1, <1>2 DEF Data, Places, Inside
  <2> QED BY <1>1, <2>1, <2>2 DEF Data, Places
<1>9. Preparation'
  BY <1>1, <1>2, <1>3, <1>4 DEF Data, Shapes, Preparation
<1> QED BY <1>3, <1>5, <1>6, <1>7, <1>8, <1>9 DEF Data

\* _admit: answered at once, handed to the engine, or queued for the worker.
LEMMA AdmitKeepsData ==
  ASSUME Data, ingress # <<>>, Admit
  PROVE  Data'
<1> DEFINE s == Head(ingress)
<1>1. ingress' = Tail(ingress) /\ UNCHANGED <<call, lock, issued, cancels>>
  BY DEF Admit, clients
<1>2. <<"done">> \in Closing /\ <<"error">> \in Closing /\ <<"accepted", "done">> \in Closing
  BY DEF Closing
<1>3. CASE Id[s] \in marks \/ stop
  BY <1>1, <1>2, <1>3, EndHeadKeepsData DEF Admit, ReleaseSlots, media
<1>4. CASE ~(Id[s] \in marks \/ stop) /\ s \notin Media
  <2>1. /\ SubmitToEngine(s) /\ slots' = slots - 1 /\ Id[s] \notin marks
        /\ UNCHANGED <<pending, mediaWaiting, preparing, future>>
    BY <1>4 DEF Admit, ReleaseSlots, media
  <2> QED BY <1>1, <1>2, <2>1, EndHeadKeepsData, AdmitHeadKeepsData DEF SubmitToEngine
<1>5. CASE ~(Id[s] \in marks \/ stop) /\ s \in Media
  BY <1>1, <1>5, QueueMediaKeepsData DEF Admit
<1> QED BY <1>3, <1>4, <1>5

\* The worker's request is done with: it is answered, and its slot given back.
LEMMA EndPreparedKeepsData ==
  ASSUME Data, preparing \in pending, preparing' = Nobody, future' = "none",
         pending' = pending \ {preparing}, NEW t \in Closing,
         events' = Publish({preparing}, t), Forget({preparing}), slots' = slots - 1,
         UNCHANGED <<call, lock, issued, ingress, cancels, active, engine, mediaWaiting>>
  PROVE  Data'
<1>1. preparing \in Submissions /\ preparing \in Live /\ preparing # Nobody
  BY LiveIs, RuntimeAssumption DEF Data, Places
<1>2. /\ events' \in [Submissions -> Seq(Kinds)]
      /\ TerminalIsLast'
      /\ \A x \in Submissions : Ended(x)' <=> Ended(x) \/ x = preparing
      /\ \A x \in Submissions \ {preparing} : events'[x] = events[x]
      /\ Live' = Live \ {preparing}
  <2>1. t \in Tails /\ {preparing} \in SUBSET Live
    BY <1>1 DEF Tails
  <2> QED BY <2>1, PublishEnds
<1>3. KnownExact' /\ MarksPending' /\ known' \subseteq Ids /\ marks' \subseteq Ids
  <2>1. {preparing} \in SUBSET Live
    BY <1>1
  <2> QED BY <1>2, <2>1, ForgetEnds
<1>4. SlotsExact' /\ slots' \in 0..Capacity
  <2>1. Held = Held' + 1 /\ Held' \in Nat
    BY <1>1 DEF Held
  <2>2. /\ Len(ingress) \in Nat /\ Len(mediaWaiting) \in Nat
        /\ ingress' \in Seq(Submissions) /\ mediaWaiting' \in Seq(Submissions)
    BY EmptyProperties DEF Data, Shapes
  <2> QED BY <2>1, <2>2, SlotsMoved
<1>5. Shapes'
  BY <1>2, <1>3, <1>4 DEF Data, Shapes, Futures
<1>6. Places'
  <2>1. \A x \in Submissions : call'[x] \in {"new", "refused"} => events'[x] = <<>>
    BY <1>1, <1>2, LiveIs DEF Data, Places
  <2>2. Live' = Inside' \cup Range(ingress') \cup pending' \cup active'
    BY <1>1, <1>2 DEF Data, Places, Inside
  <2> QED BY <2>1, <2>2 DEF Data, Places, Inside
<1>7. Preparation'
  <2>1. Nobody \notin pending
    BY RuntimeAssumption DEF Data, Shapes
  <2>2. Range(mediaWaiting') = pending' \ {preparing'} /\ IsInjective(mediaWaiting')
    BY <2>1 DEF Data, Preparation
  <2> QED BY <2>2 DEF Preparation
<1> QED BY <1>2, <1>3, <1>4, <1>5, <1>6, <1>7 DEF Data

\* The prepared request joins the engine, and its slot is given back.
LEMMA JoinPreparedKeepsData ==
  ASSUME Data, preparing \in pending, preparing' = Nobody, future' = "none",
         pending' = pending \ {preparing},
         active' = active \cup {preparing}, engine' = engine \cup {preparing},
         events' = Publish({preparing}, <<"accepted">>), slots' = slots - 1,
         UNCHANGED <<call, lock, issued, ingress, cancels, known, marks, mediaWaiting>>
  PROVE  Data'
<1>1. preparing \in Submissions /\ preparing \in Live /\ preparing # Nobody
  BY LiveIs, RuntimeAssumption DEF Data, Places
<1>2. /\ events' \in [Submissions -> Seq(Kinds)]
      /\ TerminalIsLast'
      /\ \A x \in Submissions : Ended(x)' <=> Ended(x)
      /\ \A x \in Submissions \ {preparing} : events'[x] = events[x]
      /\ Live' = Live
  <2>1. <<"accepted">> \in Tails /\ <<"accepted">> \notin Closing /\ {preparing} \in SUBSET Live
    BY <1>1 DEF Tails, Closing
  <2> QED BY <2>1, PublishEnds
<1>3. KnownExact' /\ MarksPending'
  BY <1>2 DEF Data, KnownExact, MarksPending
<1>4. SlotsExact' /\ slots' \in 0..Capacity
  <2>1. Held = Held' + 1 /\ Held' \in Nat
    BY <1>1 DEF Held
  <2>2. /\ Len(ingress) \in Nat /\ Len(mediaWaiting) \in Nat
        /\ ingress' \in Seq(Submissions) /\ mediaWaiting' \in Seq(Submissions)
    BY EmptyProperties DEF Data, Shapes
  <2> QED BY <2>1, <2>2, SlotsMoved
<1>5. Shapes'
  BY <1>1, <1>2, <1>4 DEF Data, Shapes, Futures
<1>6. Places'
  <2>1. \A x \in Submissions : call'[x] \in {"new", "refused"} => events'[x] = <<>>
    BY <1>1, <1>2, LiveIs DEF Data, Places
  <2>2. Live' = Inside' \cup Range(ingress') \cup pending' \cup active'
    BY <1>1, <1>2 DEF Data, Places, Inside
  <2>3. /\ Inside' \cap (Range(ingress') \cup pending' \cup active') = {}
        /\ Range(ingress') \cap (pending' \cup active') = {}
        /\ pending' \cap active' = {}
    BY DEF Data, Places, Inside
  <2> QED BY <2>1, <2>2, <2>3 DEF Data, Places
<1>7. Preparation'
  <2>1. Nobody \notin pending
    BY RuntimeAssumption DEF Data, Shapes
  <2>2. Range(mediaWaiting') = pending' \ {preparing'} /\ IsInjective(mediaWaiting')
    BY <2>1 DEF Data, Preparation
  <2> QED BY <2>2 DEF Preparation
<1> QED BY <1>2, <1>3, <1>4, <1>5, <1>6, <1>7 DEF Data

\* A preparation whose request was answered before only gives back its slot: at
\* admission, and when the owner thread ends.
LEMMA DropPreparedKeepsData ==
  ASSUME Data, preparing # Nobody, preparing \notin pending, preparing' = Nobody, future' = "none",
         slots' = slots - 1,
         UNCHANGED <<call, lock, issued, ingress, cancels, known, marks, pending, active, engine,
                     events, mediaWaiting>>
  PROVE  Data'
<1>1. Live' = Live /\ TerminalIsLast' /\ \A x \in Submissions : Ended(x)' <=> Ended(x)
  BY SameEvents DEF Data
<1>2. SlotsExact' /\ slots' \in 0..Capacity
  <2>1. Held = Held' + 1 /\ Held' \in Nat
    BY DEF Held
  <2>2. /\ Len(ingress) \in Nat /\ Len(mediaWaiting) \in Nat
        /\ ingress' \in Seq(Submissions) /\ mediaWaiting' \in Seq(Submissions)
    BY EmptyProperties DEF Data, Shapes
  <2> QED BY <2>1, <2>2, SlotsMoved
<1>3. Shapes'
  BY <1>2 DEF Data, Shapes, Futures
<1>4. Places'
  BY <1>1 DEF Data, Places, Inside
<1>5. Preparation'
  <2>1. Nobody \notin pending
    BY RuntimeAssumption DEF Data, Shapes
  <2> QED BY <2>1 DEF Data, Preparation
<1>6. KnownExact' /\ MarksPending'
  BY <1>1 DEF Data, KnownExact, MarksPending
<1> QED BY <1>1, <1>2, <1>3, <1>4, <1>5, <1>6 DEF Data

\* _admit_prepared: dropped, answered, or handed to the engine.
LEMMA AdmitPreparedKeepsData ==
  ASSUME Data, AdmitPrepared
  PROVE  Data'
<1>1. /\ preparing # Nobody /\ preparing' = Nobody /\ future' = "none" /\ slots' = slots - 1
      /\ pending' = pending \ {preparing}
      /\ UNCHANGED <<call, lock, issued, ingress, cancels, mediaWaiting>>
  BY DEF AdmitPrepared, FutureDone, ReleaseSlots, clients
<1>2. <<"done">> \in Closing /\ <<"error">> \in Closing /\ <<"accepted", "done">> \in Closing
  BY DEF Closing
<1>3. CASE Discarded
  <2>1. UNCHANGED <<known, marks, active, engine, events>> /\ preparing \notin pending
    BY <1>3 DEF AdmitPrepared, Discarded
  <2>2. pending' = pending
    BY <1>1, <2>1
  <2> QED BY <1>1, <2>1, <2>2, DropPreparedKeepsData
<1>4. CASE ~Discarded /\ (stop \/ future # "ready")
  <2>1. /\ preparing \in pending
        /\ \E t \in Closing : events' = Publish({preparing}, t)
        /\ Forget({preparing}) /\ UNCHANGED <<active, engine>>
    BY <1>2, <1>4 DEF AdmitPrepared, Discarded
  <2> QED BY <1>1, <2>1, EndPreparedKeepsData
<1>5. CASE ~Discarded /\ ~stop /\ future = "ready"
  <2>1. preparing \in pending /\ SubmitToEngine(preparing)
    BY <1>5 DEF AdmitPrepared, Discarded
  <2> QED BY <1>1, <1>2, <2>1, EndPreparedKeepsData, JoinPreparedKeepsData DEF SubmitToEngine
<1> QED BY <1>3, <1>4, <1>5

\* _start_preparation moves the slot from the media queue to the worker.
LEMMA StartPreparationKeepsData ==
  ASSUME Data, StartPreparation
  PROVE  Data'
<1>1. /\ UNCHANGED <<call, lock, issued, ingress, cancels, known, slots, marks, active, engine,
                     events, pending>>
  BY DEF StartPreparation, clients, shared
<1>2. CASE UNCHANGED <<preparing, mediaWaiting, future>>
  BY <1>1, <1>2, SameData DEF Data, Shapes
<1>3. CASE /\ preparing = Nobody /\ mediaWaiting # <<>>
           /\ preparing' = Head(mediaWaiting) /\ mediaWaiting' = Tail(mediaWaiting)
           /\ future' = "queued"
  <2>1. Live' = Live /\ TerminalIsLast' /\ \A x \in Submissions : Ended(x)' <=> Ended(x)
    BY <1>1, SameEvents DEF Data
  <2>2. /\ preparing' \in Submissions /\ preparing' \in Range(mediaWaiting)
        /\ mediaWaiting' \in Seq(Submissions) /\ IsInjective(mediaWaiting')
        /\ Range(mediaWaiting') = Range(mediaWaiting) \ {preparing'}
        /\ Len(mediaWaiting) = Len(mediaWaiting') + 1
        /\ Len(mediaWaiting') \in Nat
    <3>1. mediaWaiting \in Seq(Submissions) /\ IsInjective(mediaWaiting)
      BY DEF Data, Shapes, Preparation
    <3> QED BY <1>3, <3>1, PopLeftProperties, EmptyProperties
  <2>3. Nobody \notin pending /\ preparing' # Nobody
    BY <2>2, RuntimeAssumption DEF Data, Shapes
  <2>4. SlotsExact' /\ slots' \in 0..Capacity
    <3>1. Held' = Held + 1 /\ Held \in Nat
      BY <1>1, <1>3, <2>3 DEF Held
    <3>2. ingress' \in Seq(Submissions) /\ ingress' = ingress /\ slots' = slots - 0
          /\ Len(ingress) \in Nat
      BY <1>1, EmptyProperties DEF Data, Shapes
    <3> QED BY <2>2, <3>1, <3>2, SlotsMoved
  <2>5. Shapes'
    BY <1>1, <1>3, <2>2 DEF Data, Shapes, Futures
  <2>6. Places'
    BY <1>1, <2>1 DEF Data, Places, Inside
  <2>7. Preparation'
    BY <1>1, <1>3, <2>2, <2>3 DEF Data, Preparation
  <2>8. KnownExact' /\ MarksPending'
    BY <1>1, <2>1 DEF Data, KnownExact, MarksPending
  <2> QED BY <2>1, <2>4, <2>5, <2>6, <2>7, <2>8 DEF Data
<1> QED BY <1>2, <1>3 DEF StartPreparation

-----------------------------------------------------------------------------
(* The engine step, the end of the owner thread and the worker keep Data.  *)

\* The last token and the terminal event of one step.
LEMMA TokenThenDone == <<"token">> \o <<"done">> = <<"token", "done">>
<1> DEFINE a == <<"token">>
           b == <<"done">>
           c == <<"token", "done">>
<1>1. /\ a \in Seq(Kinds) /\ Len(a) = 1 /\ a[1] = "token"
      /\ b \in Seq(Kinds) /\ Len(b) = 1 /\ b[1] = "done"
      /\ c \in Seq(Kinds) /\ Len(c) = 2 /\ c[1] = "token" /\ c[2] = "done"
  BY DEF Kinds
<1> HIDE DEF a, b, c
<1>2. /\ a \o b \in Seq(Kinds) /\ Len(a \o b) = 1 + 1
      /\ \A i \in 1 .. 1 + 1 : (a \o b)[i] = IF i <= 1 THEN a[i] ELSE b[i - 1]
  BY <1>1, ConcatProperties
<1>3. Len(a \o b) = 2 /\ (a \o b)[1] = "token" /\ (a \o b)[2] = "done"
  BY <1>1, <1>2
<1>4. \A i \in 1 .. Len(c) : (a \o b)[i] = c[i]
  BY <1>1, <1>3
<1>5. a \o b = c
  BY <1>1, <1>2, <1>3, <1>4, SeqEqual
<1> QED BY <1>5 DEF a, b, c

\* A step sends a token to some active requests and ends some of those.
LEMMA ServedKeepsData ==
  ASSUME Data, NEW ended, NEW told \in SUBSET engine, NEW finished \in SUBSET told,
         Served(ended, told, finished),
         UNCHANGED <<call, lock, issued, slots, ingress, cancels, pending, mediaWaiting,
                     preparing, future>>
  PROVE  Data'
<1>1. /\ finished \subseteq told
      /\ engine' = engine \ ended
      /\ active' = active \ finished
      /\ events' = [s \in Submissions |->
                      events[s] \o (IF s \in told \cap active THEN <<"token">> ELSE <<>>)
                                \o (IF s \in finished \cap active THEN <<"done">> ELSE <<>>)]
      /\ Forget(finished \cap active)
  BY DEF Served
<1>2. UNCHANGED <<call, lock, issued, slots, ingress, cancels, pending, mediaWaiting, preparing,
                  future>>
  OBVIOUS
<1> DEFINE S == finished \cap active
           tail == [s \in Submissions |->
                      IF s \in S THEN <<"token", "done">>
                      ELSE IF s \in told \cap active THEN <<"token">> ELSE <<>>]
<1>3. tail \in [Submissions -> Tails]
  BY DEF Tails, Closing
<1>4. events' = [s \in Submissions |-> events[s] \o tail[s]]
  <2> SUFFICES ASSUME NEW s \in Submissions
               PROVE  events[s] \o (IF s \in told \cap active THEN <<"token">> ELSE <<>>)
                                \o (IF s \in finished \cap active THEN <<"done">> ELSE <<>>)
                        = events[s] \o tail[s]
    BY <1>1
  <2>1. events[s] \in Seq(Kinds)
    BY DEF Data, Shapes
  <2>2. CASE s \in S
    <3>1. s \in told \cap active
      BY <1>1, <2>2
    <3>2. <<"token">> \in Seq(Kinds) /\ <<"done">> \in Seq(Kinds)
      BY DEF Kinds
    <3>3. (events[s] \o <<"token">>) \o <<"done">> = events[s] \o (<<"token">> \o <<"done">>)
      BY <2>1, <3>2, ConcatAssociative
    <3>4. <<"token">> \o <<"done">> = <<"token", "done">>
      BY TokenThenDone
    <3> QED BY <2>2, <3>1, <3>3, <3>4
  <2>3. CASE s \notin S
    <3>1. \A e \in Seq(Kinds) : e \o <<>> = e
      BY ConcatEmptySeq
    <3>2. events[s] \o <<"token">> \in Seq(Kinds) /\ events[s] \o <<>> \in Seq(Kinds)
      <4>1. <<"token">> \in Seq(Kinds) /\ <<>> \in Seq(Kinds)
        BY DEF Kinds
      <4> QED BY <2>1, <4>1, ConcatProperties
    <3> QED BY <2>3, <3>1, <3>2
  <2> QED BY <2>2, <2>3
<1>5. \A s \in Submissions : Ended(s) => tail[s] = <<>>
  <2>1. \A s \in active : ~Ended(s)
    BY LiveIs DEF Data, Places
  <2> QED BY <2>1
<1>6. \A s \in Submissions : tail[s] \in Closing <=> s \in S
  BY DEF Closing
<1>7. S \in SUBSET Live /\ S \subseteq active /\ active' = active \ S
  BY <1>1 DEF Data, Places
<1>8. \A s \in Submissions : tail[s] # <<>> => s \in Live
  BY DEF Data, Places
<1> HIDE DEF tail, S
<1>9. /\ events' \in [Submissions -> Seq(Kinds)]
      /\ TerminalIsLast'
      /\ \A s \in Submissions : Ended(s)' <=> Ended(s) \/ s \in S
      /\ \A s \in Submissions : tail[s] = <<>> => events'[s] = events[s]
  BY <1>3, <1>4, <1>5, <1>6, PublicationEnds DEF Data, Shapes
<1>10. Live' = Live \ S
  BY <1>2, <1>9 DEF Live
<1>11. KnownExact' /\ MarksPending' /\ known' \subseteq Ids /\ marks' \subseteq Ids
  BY <1>1, <1>2, <1>7, <1>10, ForgetEnds DEF S
<1>12. Shapes'
  BY <1>1, <1>2, <1>9, <1>11 DEF Data, Shapes
<1>13. Places'
  <2>1. \A s \in Submissions : call'[s] \in {"new", "refused"} => events'[s] = <<>>
    BY <1>2, <1>8, <1>9, LiveIs DEF Data, Places
  <2>2. Live' = Inside' \cup Range(ingress') \cup pending' \cup active'
    BY <1>2, <1>7, <1>10 DEF Data, Places, Inside
  <2> QED BY <1>2, <1>7, <2>1, <2>2 DEF Data, Places, Inside
<1>14. Preparation'
  BY <1>2, <1>9 DEF Data, Shapes, Preparation
<1>15. SlotsExact'
  BY <1>2 DEF Data, SlotsExact
<1> QED BY <1>9, <1>11, <1>12, <1>13, <1>14, <1>15 DEF Data

LEMMA ExecuteStepKeepsData ==
  ASSUME Data, ExecuteStep
  PROVE  Data'
<1>1. PICK batch \in SUBSET engine, ended \in SUBSET engine :
        ended \subseteq batch /\ Served(ended, batch, ended)
  BY DEF ExecuteStep
<1>2. UNCHANGED <<call, lock, issued, slots, ingress, cancels, pending, mediaWaiting, preparing,
                  future>>
  BY DEF ExecuteStep, clients, media
<1>3. ended \in SUBSET batch
  BY <1>1
<1> QED BY <1>1, <1>2, <1>3, ServedKeepsData

\* An exception in the step leaves some of the tokens and of the terminal events out.
LEMMA StepRaisesKeepsData ==
  ASSUME Data, StepRaises
  PROVE  Data'
<1>1. PICK batch \in SUBSET engine, ended \in SUBSET engine, told \in SUBSET engine,
           finished \in SUBSET engine :
        /\ finished \subseteq ended /\ ended \subseteq batch
        /\ finished # {} => told = batch
        /\ Served(ended, told, finished)
  BY DEF StepRaises
<1>2. UNCHANGED <<call, lock, issued, slots, ingress, cancels, pending, mediaWaiting, preparing,
                  future>>
  BY DEF StepRaises, clients, media
<1>3. finished \in SUBSET told
  BY <1>1
<1> QED BY <1>1, <1>2, <1>3, ServedKeepsData

\* Every active and every pending request is answered, and the media queue
\* emptied: a stop or a failure.
LEMMA EndAllKeepsData ==
  ASSUME Data, active' = {}, engine' \in SUBSET engine, pending' = {}, mediaWaiting' = <<>>,
         future' = IF preparing \in pending /\ future = "queued" THEN "cancelled" ELSE future,
         NEW t \in Closing, events' = Publish(active \cup pending, t),
         Forget(active \cup pending), slots' = slots - Len(mediaWaiting),
         UNCHANGED <<call, lock, issued, ingress, cancels, preparing>>
  PROVE  Data'
<1> DEFINE S == active \cup pending
<1>1. S \in SUBSET Live
  BY DEF Data, Places
<1>2. events' = Publish(S, t) /\ Forget(S)
  OBVIOUS
<1>3. active \subseteq S /\ pending \subseteq S /\ S \subseteq active \cup pending
  OBVIOUS
<1> HIDE DEF S
<1>4. /\ events' \in [Submissions -> Seq(Kinds)]
      /\ TerminalIsLast'
      /\ \A x \in Submissions : Ended(x)' <=> Ended(x) \/ x \in S
      /\ \A x \in Submissions \ S : events'[x] = events[x]
      /\ Live' = Live \ S
  <2>1. t \in Tails
    BY DEF Tails
  <2> QED BY <1>1, <1>2, <2>1, PublishEnds
<1>5. KnownExact' /\ MarksPending' /\ known' \subseteq Ids /\ marks' \subseteq Ids
  BY <1>1, <1>2, <1>4, ForgetEnds
<1>6. SlotsExact' /\ slots' \in 0..Capacity
  <2>1. Held' = Held /\ Held \in Nat
    BY DEF Held
  <2>2. /\ Len(ingress) \in Nat /\ Len(mediaWaiting) \in Nat
        /\ ingress' \in Seq(Submissions)
        /\ mediaWaiting' \in Seq(Submissions) /\ Len(mediaWaiting') = 0
    BY EmptyProperties, NoElements DEF Data, Shapes
  <2> QED BY <2>1, <2>2, SlotsMoved
<1>7. Shapes'
  BY <1>4, <1>5, <1>6, NoElements DEF Data, Shapes, Futures
<1>8. Places'
  <2>1. \A x \in Submissions : call'[x] \in {"new", "refused"} => events'[x] = <<>>
    BY <1>1, <1>4, LiveIs DEF Data, Places
  <2>2. Live' = Inside' \cup Range(ingress') \cup pending' \cup active'
    BY <1>3, <1>4 DEF Data, Places, Inside
  <2> QED BY <2>1, <2>2 DEF Data, Places, Inside
<1>9. Preparation'
  <2>1. Range(mediaWaiting') = {} /\ IsInjective(mediaWaiting')
    BY NoElements
  <2> QED BY <1>3, <1>4, <2>1 DEF Data, Shapes, Preparation
<1> QED BY <1>4, <1>5, <1>6, <1>7, <1>8, <1>9 DEF Data

\* The end of the owner thread drops the preparation that was left.
LEMMA ExitKeepsData ==
  ASSUME Data, pending = {}, Exit
  PROVE  Data'
<1>1. /\ preparing' = Nobody /\ future' = "none"
      /\ slots' = slots - IF preparing = Nobody THEN 0 ELSE 1
      /\ UNCHANGED <<call, lock, issued, ingress, cancels, known, marks, pending, active, engine,
                     events, mediaWaiting>>
  BY DEF Exit, WorkerQuiet, ReleaseSlots, clients
<1>2. CASE preparing = Nobody
  <2>1. future = "none" /\ slots' = slots
    BY <1>1, <1>2 DEF Data, Preparation, Shapes
  <2> QED BY <1>1, <1>2, <2>1, SameData DEF Data, Shapes
<1>3. CASE preparing # Nobody
  BY <1>1, <1>3, DropPreparedKeepsData
<1> QED BY <1>2, <1>3

\* The CPU worker moves its future on.
LEMMA WorkerKeepsData ==
  ASSUME Data, Worker
  PROVE  Data'
<1>1. /\ future # "none" /\ future' \in Futures \ {"none"}
      /\ UNCHANGED <<call, lock, issued, known, slots, ingress, cancels, marks, active, engine,
                     events, pending, mediaWaiting, preparing>>
  BY DEF Worker, WorkerBegins, WorkerEnds, Futures, clients, shared, owner
<1>2. Live' = Live /\ TerminalIsLast' /\ \A x \in Submissions : Ended(x)' <=> Ended(x)
  BY <1>1, SameEvents DEF Data
<1>3. Shapes'
  BY <1>1 DEF Data, Shapes
<1>4. Places'
  BY <1>1, <1>2 DEF Data, Places, Inside
<1>5. Preparation'
  BY <1>1, <1>2 DEF Data, Shapes, Preparation
<1>6. SlotsExact' /\ KnownExact' /\ MarksPending'
  BY <1>1, <1>2 DEF Data, SlotsExact, KnownExact, MarksPending
<1> QED BY <1>2, <1>3, <1>4, <1>5, <1>6 DEF Data

-----------------------------------------------------------------------------
(* The invariant.                                                          *)

\* The invariant holds before the owner thread starts.
LEMMA InitEstablishes == Init => IInv
<1> SUFFICES ASSUME Init PROVE IInv
  OBVIOUS
<1>1. Live = {} /\ TerminalIsLast
  BY DEF Init, Live, TerminalIsLast
<1>2. Shapes
  BY RuntimeAssumption, NoElements DEF Init, Shapes, Futures
<1>3. Places
  <2>1. Range(ingress) = {} /\ IsInjective(ingress)
    BY NoElements DEF Init
  <2>2. Inside = {} /\ \A s \in Submissions : call[s] = "new" /\ lock # s /\ events[s] = <<>>
    BY RuntimeAssumption DEF Init, Inside
  <2> QED BY <1>1, <2>1, <2>2 DEF Init, Places
<1>4. Preparation
  BY NoElements DEF Init, Preparation
<1>5. SlotsExact
  BY NoElements DEF Init, SlotsExact
<1>6. KnownExact /\ MarksPending
  BY <1>1 DEF Init, KnownExact, MarksPending
<1>7. ControlShapes /\ Snapshots /\ Ending /\ EngineRunsActive
  BY DEF Init, ControlShapes, Snapshots, Ending, EngineRunsActive
<1> QED BY <1>1, <1>2, <1>3, <1>4, <1>5, <1>6, <1>7 DEF IInv, Data

\* The queues that the owner pops from are not empty when it does.
LEMMA PopsExist ==
  ASSUME IInv
  PROVE  /\ pc = "admit" => ingress # <<>>
         /\ pc \in {"cancels", "recancels"} /\ left > 0 => cancels # <<>>
         /\ pc \in {"draining", "closing", "exited"} => pending = {}
<1>1. /\ Len(ingress) \in Nat /\ Len(cancels) \in Nat
      /\ ingress = <<>> => Len(ingress) = 0
      /\ cancels = <<>> => Len(cancels) = 0
  BY EmptyProperties DEF IInv, Data, Shapes
<1>2. ASSUME pc = "admit" PROVE ingress # <<>>
  <2>1. left \in Nat /\ left > 0 /\ left <= Len(ingress)
    BY <1>2 DEF IInv, ControlShapes, Snapshots
  <2> QED BY <1>1, <2>1
<1>3. ASSUME pc \in {"cancels", "recancels"}, left > 0 PROVE cancels # <<>>
  <2>1. left \in Nat /\ left <= Len(cancels)
    BY <1>3 DEF IInv, ControlShapes, Snapshots
  <2>2. left > 0
    BY <1>3
  <2> QED BY <1>1, <2>1, <2>2
<1>4. ASSUME pc \in {"draining", "closing", "exited"} PROVE pending = {}
  BY <1>4 DEF IInv, Ending
<1> QED BY <1>2, <1>3, <1>4

\* Every step of the owner, of the worker and of the network keeps Data.
LEMMA NextKeepsData ==
  ASSUME IInv, Next
  PROVE  Data'
<1> USE DEF clients, shared, owner, media
<1>1. Data /\ issued \in 0..MaxCancels /\ cancels \in Seq(Ids)
  BY DEF IInv, Data, Shapes
<1>2. CASE Start \/ LoopTop \/ CancellationsDone \/ NotPrepared \/ DrainNext \/ IdleWait
  BY <1>1, <1>2, SameData
       DEF Start, LoopTop, CancellationsDone, NotPrepared, DrainNext, IdleWait
<1>3. CASE StartFails \/ RecordFailure \/ DrainEnds
  BY <1>1, <1>3, SameData DEF StartFails, RecordFailure, DrainEnds
<1>4. CASE ApplyCancellation
  BY <1>1, <1>4, PopsExist, ApplyCancellationKeepsData DEF ApplyCancellation
<1>5. CASE AdmitPrepared \/ StartPreparation \/ ExecuteStep \/ StepRaises \/ Worker
  BY <1>1, <1>5, AdmitPreparedKeepsData, StartPreparationKeepsData, ExecuteStepKeepsData,
     StepRaisesKeepsData, WorkerKeepsData
<1>6. CASE Admit
  BY <1>1, <1>6, PopsExist, AdmitKeepsData DEF Admit
<1>7. CASE StopAll \/ FailAll
  <2>1. <<"done">> \in Closing /\ <<"error">> \in Closing
    BY DEF Closing
  <2> QED BY <1>1, <1>7, <2>1, EndAllKeepsData DEF StopAll, FailAll, ReleaseSlots
<1>8. CASE DrainOne
  <2>1. (IF failure THEN <<"error">> ELSE <<"done">>) \in Closing
    BY DEF Closing
  <2> QED BY <1>1, <1>8, <2>1, EndHeadKeepsData DEF DrainOne, ReleaseSlots
<1>9. CASE Exit
  BY <1>1, <1>9, PopsExist, ExitKeepsData DEF Exit
<1>10. CASE AdmissionRaises
  <2>1. <<"error">> \in Closing
    BY DEF Closing
  <2> QED BY <1>1, <1>10, <2>1, PopsExist, EndHeadKeepsData DEF AdmissionRaises, ReleaseSlots
<1>11. CASE PreparedRaises
  <2>1. <<"error">> \in Closing
    BY DEF Closing
  <2> QED BY <1>1, <1>11, <2>1, EndPreparedKeepsData DEF PreparedRaises, ReleaseSlots, Discarded
<1>12. CASE CancelRaises
  <2>1. cancels' \in Seq(Ids)
    BY <1>1, <1>12, PopsExist, HeadTailProperties DEF CancelRaises
  <2> QED BY <1>1, <1>12, <2>1, SameData DEF CancelRaises
<1>13. CASE StopRaises
  <2>1. <<"done">> \in Closing
    BY DEF Closing
  <2>2. PICK done \in SUBSET active :
          /\ active' = active \ done /\ engine' = engine \ done
          /\ events' = Publish(done, <<"done">>) /\ Forget(done)
    BY <1>13 DEF StopRaises
  <2> QED BY <1>1, <1>13, <2>1, <2>2, EndActiveKeepsData DEF StopRaises
<1>14. CASE Network
  <2>1. ASSUME NEW s \in Submissions, SubmitCheck(s) \/ SubmitPut(s) PROVE Data'
    BY <1>1, <2>1, SubmitCheckKeepsData, SubmitPutKeepsData
  <2>2. ASSUME NEW id \in Ids, Cancel(id) PROVE Data'
    <3>1. issued' \in 0..MaxCancels
      BY <1>1, <2>2, RuntimeAssumption DEF Cancel
    <3>2. cancels' \in Seq(Ids)
      BY <1>1, <2>2, AppendProperties DEF Cancel
    <3> QED BY <1>1, <2>2, <3>1, <3>2, SameData DEF Cancel
  <2>3. CASE Stop
    BY <1>1, <2>3, SameData DEF Stop
  <2> QED BY <1>14, <2>1, <2>2, <2>3 DEF Network
<1> QED BY <1>2, <1>3, <1>4, <1>5, <1>6, <1>7, <1>8, <1>9, <1>10, <1>11, <1>12, <1>13, <1>14
        DEF Next, OwnerStep, Failing

\* The lengths of the two queues when one element joins or leaves them.
LEMMA QueueLengths ==
  ASSUME IInv
  PROVE  /\ Len(ingress) \in Nat /\ Len(cancels) \in Nat
         /\ ingress # <<>> => Len(Tail(ingress)) = Len(ingress) - 1
         /\ cancels # <<>> => Len(Tail(cancels)) = Len(cancels) - 1
         /\ \A s \in Submissions : Len(Append(ingress, s)) = Len(ingress) + 1
         /\ \A id \in Ids : Len(Append(cancels, id)) = Len(cancels) + 1
  BY EmptyProperties, HeadTailProperties, AppendProperties DEF IInv, Data, Shapes

\* Every step keeps the owner's place among its places.
LEMMA NextKeepsControlShapes ==
  ASSUME IInv, Next
  PROVE  ControlShapes'
<1> USE DEF Goto, Raise, clients, shared, owner, media
<1>1. ControlShapes
  BY DEF IInv
<1>2. left' \in Nat
  <2>1. CASE Admit
    <3>1. left > 0
      BY <2>1 DEF Admit, IInv, Snapshots
    <3> QED BY <1>1, <2>1, <3>1 DEF Admit, ControlShapes
  <2>2. CASE ApplyCancellation
    BY <1>1, <2>2 DEF ApplyCancellation, ControlShapes
  <2>3. CASE left' \in {left, Len(ingress), Len(cancels)}
    BY <1>1, <2>3, QueueLengths DEF ControlShapes
  <2>4. left' \in {left, Len(ingress), Len(cancels)} \/ Admit \/ ApplyCancellation
    BY DEF Next, OwnerStep, Failing, Network, Worker, WorkerBegins, WorkerEnds,
           Start, LoopTop, CancellationsDone, NotPrepared, AdmitPrepared, DrainNext,
           StartPreparation, ExecuteStep, IdleWait, RecordFailure, StopAll, FailAll, DrainOne,
           DrainEnds, Exit, StartFails, StepRaises, AdmissionRaises, PreparedRaises,
           CancelRaises, StopRaises, SubmitCheck, SubmitPut, Cancel, Stop, DrainFrom
  <2> QED BY <2>1, <2>2, <2>3, <2>4
<1>3. /\ stop' \in {stop, TRUE} /\ failure' \in {failure, TRUE}
      /\ pc' \in {pc, "loop", "cancels", "prepared", "drain", "admit", "recancels", "step",
                  "stopping", "raised", "failing", "draining", "closing", "exited"}
  BY DEF Next, OwnerStep, Failing, Network, Worker, WorkerBegins, WorkerEnds,
         Start, LoopTop, ApplyCancellation, CancellationsDone, NotPrepared, AdmitPrepared,
         DrainNext, Admit, StartPreparation, ExecuteStep, IdleWait, RecordFailure, StopAll,
         FailAll, DrainOne, DrainEnds, Exit, StartFails, StepRaises, AdmissionRaises,
         PreparedRaises, CancelRaises, StopRaises, SubmitCheck, SubmitPut, Cancel, Stop, DrainFrom
<1> QED BY <1>1, <1>2, <1>3 DEF ControlShapes

\* Every step keeps the snapshots within their queues.
LEMMA NextKeepsSnapshots ==
  ASSUME IInv, Next
  PROVE  Snapshots'
<1> USE DEF Goto, Raise, clients, shared, owner, media
<1>1. Snapshots /\ left \in Nat /\ Len(ingress) \in Nat /\ Len(cancels) \in Nat
  BY QueueLengths DEF IInv, ControlShapes
<1>2. CASE pc' \notin {"drain", "admit", "cancels", "recancels"}
  BY <1>2 DEF Snapshots
<1>3. CASE UNCHANGED <<pc, left, ingress, cancels>>
  BY <1>1, <1>3 DEF Snapshots
<1>4. CASE LoopTop \/ StartPreparation
  BY <1>1, <1>4 DEF LoopTop, StartPreparation, Snapshots
<1>5. CASE CancellationsDone
  BY <1>5 DEF CancellationsDone, Snapshots
<1>6. CASE NotPrepared \/ AdmitPrepared
  BY <1>1, <1>6 DEF NotPrepared, AdmitPrepared, DrainFrom, Snapshots
<1>7. CASE DrainNext
  BY <1>1, <1>7 DEF DrainNext, Drained, Snapshots
<1>8. CASE Admit
  <2>1. /\ pc' = "drain" /\ left' = left - 1 /\ left <= Len(ingress)
        /\ Len(ingress') = Len(ingress) - 1
    BY <1>1, <1>8, PopsExist, QueueLengths DEF Admit, Snapshots
  <2> QED BY <1>1, <2>1 DEF Snapshots
<1>9. CASE ApplyCancellation
  <2>1. /\ pc' = pc /\ pc \in {"cancels", "recancels"} /\ left' = left - 1
        /\ left <= Len(cancels) /\ Len(cancels') = Len(cancels) - 1
    BY <1>1, <1>9, PopsExist, QueueLengths DEF ApplyCancellation, Snapshots
  <2> QED BY <1>1, <2>1 DEF Snapshots
<1>10. ASSUME NEW s \in Submissions, SubmitPut(s) PROVE Snapshots'
  <2>1. Len(ingress') = Len(ingress) + 1 /\ UNCHANGED <<pc, left, cancels>>
    BY <1>10, QueueLengths DEF SubmitPut
  <2> QED BY <1>1, <2>1 DEF Snapshots
<1>11. ASSUME NEW id \in Ids, Cancel(id) PROVE Snapshots'
  <2>1. Len(cancels') = Len(cancels) + 1 /\ UNCHANGED <<pc, left, ingress>>
    BY <1>11, QueueLengths DEF Cancel
  <2> QED BY <1>1, <2>1 DEF Snapshots
<1>12. CASE Start \/ ExecuteStep \/ IdleWait \/ RecordFailure \/ StopAll \/ FailAll \/ DrainEnds
              \/ Exit \/ DrainOne \/ Failing
  <2>1. pc' \notin {"drain", "admit", "cancels", "recancels"}
    BY <1>12 DEF Failing, Start, ExecuteStep, IdleWait, RecordFailure, StopAll, FailAll, DrainOne,
                 DrainEnds, Exit, StartFails, StepRaises, AdmissionRaises, PreparedRaises,
                 CancelRaises, StopRaises
  <2> QED BY <1>2, <2>1
<1>13. ASSUME \/ Worker \/ Stop
              \/ \E s \in Submissions : SubmitCheck(s)
       PROVE  Snapshots'
  BY <1>3, <1>13 DEF Worker, WorkerBegins, WorkerEnds, Stop, SubmitCheck
<1> QED BY <1>4, <1>5, <1>6, <1>7, <1>8, <1>9, <1>10, <1>11, <1>12, <1>13
        DEF Next, OwnerStep, Network

\* Every step keeps what the end of the owner thread relies on.
LEMMA NextKeepsEnding ==
  ASSUME IInv, Next
  PROVE  Ending'
<1> USE DEF Goto, Raise, clients, shared, owner, media
<1>1. Ending
  BY DEF IInv
<1>2. CASE \/ Start \/ LoopTop \/ CancellationsDone \/ NotPrepared \/ AdmitPrepared \/ DrainNext
           \/ StartPreparation \/ ExecuteStep \/ IdleWait \/ ApplyCancellation \/ Admit
           \/ StepRaises \/ AdmissionRaises \/ PreparedRaises \/ CancelRaises \/ StopRaises
  <2>1. pc' \notin {"failing", "draining", "closing", "exited"} /\ UNCHANGED <<stop, lock>>
    BY <1>2 DEF Start, LoopTop, CancellationsDone, NotPrepared, AdmitPrepared, DrainNext,
                StartPreparation, ExecuteStep, IdleWait, ApplyCancellation, Admit, StepRaises,
                AdmissionRaises, PreparedRaises, CancelRaises, StopRaises, DrainFrom
  <2>2. pc' = "stopping" => stop
    BY <1>2 DEF Start, LoopTop, CancellationsDone, NotPrepared, AdmitPrepared, DrainNext,
                StartPreparation, ExecuteStep, IdleWait, ApplyCancellation, Admit, StepRaises,
                AdmissionRaises, PreparedRaises, CancelRaises, StopRaises, DrainFrom
  <2> QED BY <1>1, <2>1, <2>2 DEF Ending
<1>3. CASE StartFails \/ RecordFailure
  <2>1. pc' = "failing" /\ failure' /\ UNCHANGED <<stop, lock>>
    BY <1>3 DEF StartFails, RecordFailure
  <2> QED BY <1>1, <2>1 DEF Ending
<1>4. CASE StopAll \/ FailAll
  <2>1. /\ pc' = "draining" /\ active' = {} /\ pending' = {} /\ UNCHANGED <<stop, lock, failure>>
        /\ stop \/ failure
    BY <1>1, <1>4 DEF StopAll, FailAll, Ending
  <2> QED BY <1>1, <2>1 DEF Ending
<1>5. CASE DrainOne \/ DrainEnds
  <2>1. /\ pc = "draining" /\ UNCHANGED <<stop, lock, failure, active, pending, preparing>>
        /\ pc' = "draining" \/ (pc' = "closing" /\ ingress' = <<>>)
    BY <1>5 DEF DrainOne, DrainEnds
  <2> QED BY <1>1, <2>1 DEF Ending
<1>6. CASE Exit
  <2>1. /\ pc = "closing" /\ pc' = "exited" /\ preparing' = Nobody
        /\ UNCHANGED <<stop, lock, failure, active, pending, ingress>>
    BY <1>6 DEF Exit
  <2> QED BY <1>1, <2>1 DEF Ending
<1>7. CASE Worker
  <2>1. UNCHANGED <<pc, stop, lock, failure, active, pending, ingress, preparing>>
    BY <1>7 DEF Worker, WorkerBegins, WorkerEnds
  <2> QED BY <1>1, <2>1 DEF Ending
<1>8. ASSUME NEW s \in Submissions, SubmitCheck(s) PROVE Ending'
  <2>1. /\ UNCHANGED <<pc, stop, failure, active, pending, ingress, preparing>>
        /\ lock' = lock \/ ~stop
    BY <1>8 DEF SubmitCheck, Healthy
  <2> QED BY <1>1, <2>1 DEF Ending
<1>9. ASSUME NEW s \in Submissions, SubmitPut(s) PROVE Ending'
  <2>1. /\ UNCHANGED <<pc, stop, failure, active, pending, preparing>>
        /\ lock' = Nobody /\ lock # Nobody
    BY <1>9, RuntimeAssumption DEF SubmitPut
  <2> QED BY <1>1, <2>1 DEF Ending
<1>10. ASSUME NEW id \in Ids, Cancel(id) PROVE Ending'
  <2>1. UNCHANGED <<pc, stop, lock, failure, active, pending, ingress, preparing>>
    BY <1>10 DEF Cancel
  <2> QED BY <1>1, <2>1 DEF Ending
<1>11. CASE Stop
  <2>1. /\ stop' /\ lock' = Nobody
        /\ UNCHANGED <<pc, failure, active, pending, ingress, preparing>>
    BY <1>11 DEF Stop
  <2> QED BY <1>1, <2>1 DEF Ending
<1> QED BY <1>2, <1>3, <1>4, <1>5, <1>6, <1>7, <1>8, <1>9, <1>10, <1>11
        DEF Next, OwnerStep, Failing, Network

\* Every step keeps the engine's requests and the active ones the same.
LEMMA NextKeepsEngine ==
  ASSUME IInv, Next
  PROVE  EngineRunsActive'
<1> USE DEF Goto, Raise, clients, shared, owner, media
<1>1. EngineRunsActive
  BY DEF IInv
<1>2. CASE StepRaises \/ AdmissionRaises \/ PreparedRaises \/ CancelRaises \/ StopRaises
  BY <1>2 DEF StepRaises, AdmissionRaises, PreparedRaises, CancelRaises, StopRaises,
              EngineRunsActive
<1>3. CASE StartFails \/ RecordFailure
  BY <1>3 DEF StartFails, RecordFailure, EngineRunsActive
<1>4. CASE FailAll
  <2>1. failure'
    BY <1>4 DEF FailAll, IInv, Ending
  <2> QED BY <2>1 DEF EngineRunsActive
<1>5. CASE AdmitPrepared \/ Admit \/ ExecuteStep \/ ApplyCancellation \/ StopAll
  <2>1. pc # "raised" /\ failure' = failure
    BY <1>5 DEF AdmitPrepared, Admit, ExecuteStep, ApplyCancellation, StopAll
  <2>2. ASSUME engine = active PROVE engine' = active'
    <3>1. CASE AdmitPrepared \/ Admit
      BY <2>2, <3>1 DEF AdmitPrepared, Admit, SubmitToEngine
    <3>2. CASE ExecuteStep
      BY <2>2, <3>2 DEF ExecuteStep, Served
    <3>3. CASE ApplyCancellation
      BY <2>2, <3>3 DEF ApplyCancellation
    <3>4. CASE StopAll
      BY <2>2, <3>4 DEF StopAll
    <3> QED BY <1>5, <3>1, <3>2, <3>3, <3>4
  <2> QED BY <1>1, <2>1, <2>2 DEF EngineRunsActive
<1>6. CASE \/ Start \/ LoopTop \/ CancellationsDone \/ NotPrepared \/ DrainNext
           \/ StartPreparation \/ IdleWait \/ DrainOne \/ DrainEnds \/ Exit \/ Worker \/ Network
  <2>1. UNCHANGED <<engine, active, failure>> /\ (pc # "raised" \/ pc' = pc)
    BY <1>6 DEF Start, LoopTop, CancellationsDone, NotPrepared, DrainNext, StartPreparation,
                IdleWait, DrainOne, DrainEnds, Exit, Worker, WorkerBegins, WorkerEnds, Network,
                SubmitCheck, SubmitPut, Cancel, Stop
  <2> QED BY <1>1, <2>1 DEF EngineRunsActive
<1> QED BY <1>2, <1>3, <1>4, <1>5, <1>6 DEF Next, OwnerStep, Failing

\* The invariant holds in every behaviour, fair or not.
THEOREM RuntimeInvariant == Spec => []IInv
<1>1. Init => IInv
  BY InitEstablishes
<1>2. IInv /\ [Next]_vars => IInv'
  <2>1. ASSUME IInv, Next PROVE IInv'
    BY <2>1, NextKeepsData, NextKeepsControlShapes, NextKeepsSnapshots, NextKeepsEnding,
       NextKeepsEngine DEF IInv
  <2>2. ASSUME IInv, UNCHANGED vars PROVE IInv'
    <3>1. UNCHANGED <<call, lock, issued, known, slots, ingress, cancels, marks, pending,
                      mediaWaiting, preparing, future, active, engine, events, stop, failure,
                      pc, left>>
      BY <2>2 DEF vars, clients, shared, owner, media
    <3>2. Data'
      BY <2>2, <3>1, SameData DEF IInv, Data, Shapes
    <3>3. ControlShapes' /\ Snapshots' /\ Ending' /\ EngineRunsActive'
      BY <2>2, <3>1 DEF IInv, ControlShapes, Snapshots, Ending, EngineRunsActive
    <3> QED BY <3>2, <3>3 DEF IInv
  <2> QED BY <2>1, <2>2
<1> QED BY <1>1, <1>2, PTL DEF Spec

\* The queues, the tables, the flags and the events keep their types; in
\* particular the slots stay between 0 and ingress_capacity.
THEOREM RuntimeTypes == Spec => []TypeOK
<1>1. IInv => TypeOK
  <2> SUFFICES ASSUME IInv PROVE TypeOK
    OBVIOUS
  <2>1. Shapes /\ ControlShapes
    BY DEF IInv, Data
  <2>2. \A s \in Submissions : events[s] \in Seq({"accepted", "token", "done", "error"})
    BY <2>1 DEF Shapes, Kinds
  <2> QED BY <2>1, <2>2 DEF Shapes, ControlShapes, TypeOK, Futures
<1> QED BY <1>1, RuntimeInvariant, PTL

\* _unadmitted_requests counts exactly the submissions on their way to
\* admission, on every path of cancellation, failure and shutdown.
THEOREM RuntimeSlots == Spec => []SlotsExact
<1>1. IInv => SlotsExact
  BY DEF IInv, Data
<1> QED BY <1>1, RuntimeInvariant, PTL

\* _known_request_ids is exact, ids of live submissions are distinct, and a
\* cancellation mark never outlives its submission.
THEOREM RuntimeIds == Spec => []IdsExact
<1>1. IInv => IdsExact
  BY DEF IInv, Data, IdsExact
<1> QED BY <1>1, RuntimeInvariant, PTL

\* Each handle gets at most one terminal event, and it is the last.
THEOREM RuntimeTerminal == Spec => []TerminalIsLast
<1>1. IInv => TerminalIsLast
  BY DEF IInv, Data
<1> QED BY <1>1, RuntimeInvariant, PTL

\* The engine runs exactly the live active requests until a failure, and no
\* preparation runs once the engine is torn down.
THEOREM RuntimeEngineUse == Spec => []EngineUseSafe
<1>1. IInv => EngineUseSafe
  <2> SUFFICES ASSUME IInv PROVE EngineUseSafe
    OBVIOUS
  <2>1. EngineServesLive
    BY DEF IInv, EngineRunsActive, EngineServesLive, Data, Places
  <2>2. WorkerDoneBeforeExit
    BY DEF IInv, Ending, WorkerDoneBeforeExit, Data, Preparation
  <2> QED BY <2>1, <2>2 DEF EngineUseSafe
<1> QED BY <1>1, RuntimeInvariant, PTL

\* A shutdown without failure answers every accepted request, empties the
\* engine, and gives every slot and every id back.
THEOREM RuntimeShutdown == Spec => []CleanShutdown
<1>1. IInv => CleanShutdown
  <2> SUFFICES ASSUME IInv, pc = "exited", ~failure
               PROVE  /\ engine = {} /\ slots = 0 /\ known = {}
                      /\ \A s \in Submissions : call[s] = "accepted" => Ended(s)
    BY DEF CleanShutdown
  <2>1. /\ lock = Nobody /\ ingress = <<>> /\ active = {} /\ pending = {} /\ preparing = Nobody
        /\ engine = {}
    BY DEF IInv, Ending, EngineRunsActive
  <2>2. Len(ingress) = 0 /\ Len(mediaWaiting) = 0 /\ Range(ingress) = {}
    <3>1. mediaWaiting \in Seq(Submissions) /\ Range(mediaWaiting) = {}
      BY <2>1 DEF IInv, Data, Shapes, Preparation
    <3> QED BY <2>1, <3>1, EmptyProperties, NoElements
  <2>3. slots = 0
    BY <2>1, <2>2 DEF IInv, Data, SlotsExact
  <2>4. Live = {}
    BY <2>1, <2>2 DEF IInv, Data, Places, Inside
  <2> QED BY <2>1, <2>3, <2>4, LiveIs DEF IInv, Data, KnownExact
<1> QED BY <1>1, RuntimeInvariant, PTL
=============================================================================
