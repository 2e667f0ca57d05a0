--------------------------- MODULE TPControlProofs ---------------------------
(***************************************************************************)
(* Proofs that no worker falls behind a call that returned, for any number  *)
(* of workers, any batch plans and any number of commands, with and without *)
(* failing methods, timeouts and dying workers.                             *)
(*                                                                         *)
(* A worker that was sent every command that rank 0 has begun owes exactly  *)
(* those that are in its pipe or running (Owed); the ids in its pipe grow,  *)
(* so that it completes them in order and without a gap (NoGaps).           *)
(***************************************************************************)
EXTENDS TPControl, DequeProofs

Methods == {"swap_in", "swap_out", "copy_kv_block_prefixes", "copy_kv_blocks", "run_plan",
            "execute_single_greedy_decode_cudagraph_state", "compact_kv_cache", "exit", "none"}

Commands == [id : Int, method : Methods]

Responses == [id : Int, ok : BOOLEAN]

Shapes ==
  /\ arrived \subseteq Rank /\ nextId \in Nat /\ cmd \in Commands /\ cmd.id < nextId
  /\ sent \in 0 .. NumWorkers /\ localOk \in BOOLEAN
  /\ pc0 \in {"starting", "idle", "sending", "local", "awaiting", "closing", "joining", "exited"}
  /\ pc0 = "sending" => sent < NumWorkers
  /\ step \in Seq(Methods)
  /\ wpc \in [Worker -> {"starting", "reading", "running", "replying", "raising", "closing", "dead"}]
  /\ wcmd \in [Worker -> Commands]
  /\ pending \subseteq Worker /\ failures \subseteq Worker \ pending
  /\ toWorker \in [Worker -> Seq(Commands)] /\ toRank0 \in [Worker -> Seq(Responses)]
  /\ open \in [Worker -> BOOLEAN]
  /\ begun \in [Rank -> SUBSET Int] /\ done \in [Rank -> Seq(Int)] /\ returned \subseteq Int

\* The ids of the commands in the pipe of w.
InPipe(w) == {toWorker[w][k].id : k \in DOMAIN toWorker[w]}

\* The worker has read a command and has not answered it.
Busy(w) == wpc[w] \in {"running", "replying", "raising"}

\* The current command has not been sent to w yet.
Unsent(w) == pc0 = "sending" /\ sent < w

\* The ids in a pipe grow, after the one the worker is busy with, up to the
\* last command sent.
PipesGrow ==
  \A w \in Worker :
    /\ \A k, l \in DOMAIN toWorker[w] : k < l => toWorker[w][k].id < toWorker[w][l].id
    /\ Busy(w) => \A i \in InPipe(w) : wcmd[w].id < i
    /\ \A i \in InPipe(w) \cup Completed(w) : i <= cmd.id /\ (Unsent(w) => i < cmd.id)
    /\ Busy(w) => wcmd[w].id <= cmd.id /\ (Unsent(w) => wcmd[w].id < cmd.id)

\* Command i is completed by w, or still to be run.
Owed(w, i) == i \in Completed(w) \cup InPipe(w) \/ (wpc[w] = "running" /\ i = wcmd[w].id)

\* A worker that has not failed owes nothing that it was not sent.
Delivered ==
  \A w \in Worker : wpc[w] \notin {"raising", "closing", "dead"} =>
    /\ \A i \in begun[0] : Owed(w, i)
    /\ pc0 = "sending" /\ w <= sent => Owed(w, cmd.id)

\* A worker completes the commands of rank 0 without a gap.
NoGaps ==
  \A w \in Worker : \A i \in Completed(w) : \A j \in begun[0] : j <= i => j \in Completed(w)

\* An acknowledgement, in the pipe or counted, is of a completed command.
AcksTrue ==
  /\ \A w \in Worker : wpc[w] = "replying" => wcmd[w].id \in Completed(w)
  /\ \A w \in Worker : \A k \in DOMAIN toRank0[w] :
       toRank0[w][k].ok => toRank0[w][k].id \in Completed(w)
  /\ pc0 = "awaiting" => \A w \in Worker \ (pending \cup failures) : cmd.id \in Completed(w)
  /\ \A i \in returned, w \in Worker : i \in Completed(w)

\* What the histories say of one another.
Histories ==
  /\ \A r \in Rank : Completed(r) \subseteq begun[r]
  /\ pc0 \in {"local", "awaiting"} => cmd.id \in begun[0]
  /\ pc0 = "awaiting" /\ localOk => cmd.id \in Completed(0)
  /\ \A w \in Worker : wpc[w] = "running" => wcmd[w].id \in begun[w]
  /\ returned \subseteq Completed(0)

Progress == PipesGrow /\ Delivered /\ NoGaps /\ AcksTrue /\ Histories

IInv == Shapes /\ Progress

-----------------------------------------------------------------------------
(* Sequences of commands, responses and ids.                               *)

\* The commands a rank has completed are the entries of its history.
LEMMA CompletedIsRange == \A r : Completed(r) = Range(done[r])
  BY DEF Completed, ToSet, Range

\* Appending to a pipe or to a history, and taking the head of a pipe.
LEMMA PipeEnds ==
  ASSUME NEW S, NEW q \in Seq(S)
  PROVE  /\ \A x \in S : /\ Append(q, x) \in Seq(S)
                         /\ DOMAIN Append(q, x) = 1 .. Len(q) + 1
                         /\ \A k \in DOMAIN q : Append(q, x)[k] = q[k]
                         /\ Append(q, x)[Len(q) + 1] = x
                         /\ Range(Append(q, x)) = Range(q) \cup {x}
         /\ Len(q) \in Nat /\ DOMAIN q = 1 .. Len(q) /\ \A k \in DOMAIN q : q[k] \in S
         /\ q # <<>> => /\ Head(q) \in S /\ Tail(q) \in Seq(S) /\ 1 \in DOMAIN q /\ Head(q) = q[1]
                        /\ DOMAIN Tail(q) = 1 .. Len(q) - 1
                        /\ \A k \in DOMAIN Tail(q) : k + 1 \in DOMAIN q /\ Tail(q)[k] = q[k + 1]
<1>1. Len(q) \in Nat /\ DOMAIN q = 1 .. Len(q) /\ \A k \in DOMAIN q : q[k] \in S
  BY LenProperties, ElementOfSeq
<1>2. ASSUME NEW x \in S
      PROVE  /\ Append(q, x) \in Seq(S)
             /\ DOMAIN Append(q, x) = 1 .. Len(q) + 1
             /\ \A k \in DOMAIN q : Append(q, x)[k] = q[k]
             /\ Append(q, x)[Len(q) + 1] = x
             /\ Range(Append(q, x)) = Range(q) \cup {x}
  <2>1. /\ Append(q, x) \in Seq(S) /\ Len(Append(q, x)) = Len(q) + 1
        /\ \A k \in 1 .. Len(q) : Append(q, x)[k] = q[k]
        /\ Append(q, x)[Len(q) + 1] = x
    BY AppendProperties
  <2>2. DOMAIN Append(q, x) = 1 .. Len(q) + 1
    BY <2>1, LenProperties
  <2>3. Range(Append(q, x)) = Range(q) \cup {x}
    BY <1>1, <2>1, <2>2 DEF Range
  <2> QED BY <1>1, <2>1, <2>2, <2>3
<1>3. ASSUME q # <<>>
      PROVE  /\ Head(q) \in S /\ Tail(q) \in Seq(S) /\ 1 \in DOMAIN q /\ Head(q) = q[1]
             /\ DOMAIN Tail(q) = 1 .. Len(q) - 1
             /\ \A k \in DOMAIN Tail(q) : k + 1 \in DOMAIN q /\ Tail(q)[k] = q[k + 1]
  <2>1. /\ Head(q) \in S /\ Tail(q) \in Seq(S) /\ Len(Tail(q)) = Len(q) - 1
        /\ \A k \in 1 .. Len(Tail(q)) : Tail(q)[k] = q[k + 1]
    BY <1>3, HeadTailProperties
  <2>2. DOMAIN Tail(q) = 1 .. Len(q) - 1
    BY <2>1, LenProperties
  <2>3. Len(q) # 0 /\ Head(q) = q[1]
    BY <1>3, EmptySeq
  <2> QED BY <1>1, <2>1, <2>2, <2>3
<1> QED BY <1>1, <1>2, <1>3

\* The ids of the commands are integers.
LEMMA IdsAreInts ==
  ASSUME Shapes
  PROVE  /\ cmd.id \in Int
         /\ \A w \in Worker : /\ wcmd[w].id \in Int /\ w \in Rank /\ toWorker[w] \in Seq(Commands)
                              /\ \A k \in DOMAIN toWorker[w] : toWorker[w][k].id \in Int
                              /\ InPipe(w) \subseteq Int /\ Completed(w) \subseteq Int
<1>1. cmd.id \in Int
  BY DEF Shapes, Commands
<1>2. ASSUME NEW w \in Worker
      PROVE  /\ wcmd[w].id \in Int /\ w \in Rank /\ toWorker[w] \in Seq(Commands)
             /\ \A k \in DOMAIN toWorker[w] : toWorker[w][k].id \in Int
             /\ InPipe(w) \subseteq Int /\ Completed(w) \subseteq Int
  <2>1. w \in Rank
    BY TPAssumption DEF Worker, Rank
  <2>2. wcmd[w] \in Commands /\ toWorker[w] \in Seq(Commands) /\ done[w] \in Seq(Int)
    BY <2>1 DEF Shapes
  <2>3. \A k \in DOMAIN toWorker[w] : toWorker[w][k] \in Commands
    BY <2>2, PipeEnds
  <2>4. \A k \in DOMAIN done[w] : done[w][k] \in Int
    BY <2>2, PipeEnds
  <2>5. InPipe(w) \subseteq Int
    BY <2>3 DEF InPipe, Commands
  <2>6. Completed(w) \subseteq Int
    BY <2>4, CompletedIsRange DEF Range
  <2> QED BY <2>1, <2>2, <2>3, <2>5, <2>6 DEF Commands
<1> QED BY <1>1, <1>2

\* ModelExecutor.execute calls methods of the runner.
LEMMA StepCommandsType ==
  ASSUME NEW plan
  PROVE  StepCommands(plan) \in Seq(Methods)
<1>1. \A needed : \A m \in Methods : When(needed, m) \in Seq(Methods)
  BY DEF When
<1>2. /\ When("swap_in" \in plan, "swap_in") \in Seq(Methods)
      /\ When("swap_out" \in plan, "swap_out") \in Seq(Methods)
      /\ When("copy_prefix" \in plan, "copy_kv_block_prefixes") \in Seq(Methods)
      /\ When("copy_on_write" \in plan, "copy_kv_blocks") \in Seq(Methods)
      /\ When("compaction" \in plan, "compact_kv_cache") \in Seq(Methods)
      /\ <<"run_plan">> \in Seq(Methods)
  BY <1>1 DEF Methods
<1>3. <<FastDecode>> \in Seq(Methods)
  BY DEF Methods, FastDecode
<1>4. OrdinaryCommands(plan) \in Seq(Methods)
  BY <1>2, ConcatProperties DEF OrdinaryCommands
<1> QED BY <1>3, <1>4 DEF StepCommands

-----------------------------------------------------------------------------
(* Types.                                                                  *)

\* Every step of rank 0 keeps the types.
LEMMA Rank0KeepsShapes ==
  ASSUME IInv, \/ Rank0Runs \/ StartupFails \/ Exit \/ (\E plan \in Plans : Step(plan)) \/ Exited
  PROVE  Shapes'
<1> USE DEF await, pipes, workers, leaving, history
<1>1. Shapes /\ NumWorkers \in Nat \ {0} /\ 0 \in Rank
  BY TPAssumption DEF IInv, Rank
<1>2. CASE Arrive(0) \/ StartupDone \/ StartupFails \/ CloseChannels \/ AwaitFails \/ AwaitDone
  <2>1. Arrive(0) => Shapes'
    BY <1>1 DEF Arrive, Shapes
  <2>2. StartupDone \/ StartupFails \/ CloseChannels => Shapes'
    BY <1>1 DEF StartupDone, StartupFails, CloseChannels, Shapes
  <2>3. <<>> \in Seq(Methods)
    BY NoElements
  <2>4. AwaitFails => Shapes'
    BY <1>1, <2>3 DEF AwaitFails, RaiseToCaller, Shapes
  <2>5. AwaitDone => Shapes'
    BY <1>1, <2>3 DEF AwaitDone, RaiseToCaller, Shapes, Commands
  <2> QED BY <1>2, <2>1, <2>2, <2>4, <2>5
<1>3. CASE Exit \/ (\E plan \in Plans : Step(plan))
  <2>1. step' \in Seq(Methods)
    <3>1. CASE Exit
      <4>1. <<"exit">> \in Seq(Methods)
        BY DEF Methods
      <4> QED BY <3>1, <4>1 DEF Exit
    <3>2. CASE \E plan \in Plans : Step(plan)
      BY <3>2, StepCommandsType DEF Step
    <3> QED BY <1>3, <3>1, <3>2
  <2>2. UNCHANGED <<arrived, pc0, cmd, nextId, sent, localOk, await, pipes, workers, leaving,
                    history>>
    BY <1>3 DEF Exit, Step
  <2> QED BY <1>1, <2>1, <2>2 DEF Shapes
<1>4. CASE Call
  <2>1. Head(step) \in Methods /\ step' \in Seq(Methods)
    BY <1>1, <1>4, PipeEnds DEF Call, Shapes
  <2>2. cmd' \in Commands /\ cmd'.id = nextId /\ nextId' = nextId + 1
    BY <1>1, <1>4, <2>1 DEF Call, Shapes, Commands
  <2> QED BY <1>1, <1>4, <2>1, <2>2 DEF Call, Shapes
<1>5. CASE Send
  <2> DEFINE w == sent + 1
  <2>1. w \in Worker /\ pc0 = "sending"
    BY <1>1, <1>5 DEF Send, Shapes, Worker
  <2>2. CASE wpc[w] = "dead"
    BY <1>1, <1>5, <2>2, NoElements DEF Send, RaiseToCaller, Shapes
  <2>3. CASE wpc[w] # "dead"
    <3>0. toWorker[w] \in Seq(Commands) /\ cmd \in Commands /\ cmd.id \in Int
      BY <1>1, <2>1 DEF Shapes, Commands
    <3>1. toWorker' \in [Worker -> Seq(Commands)]
      <4>1. Append(toWorker[w], cmd) \in Seq(Commands)
        BY <3>0, PipeEnds
      <4>2. toWorker' = [toWorker EXCEPT ![w] = Append(toWorker[w], cmd)]
        BY <1>5, <2>3 DEF Send
      <4> QED BY <1>1, <4>1, <4>2 DEF Shapes
    <3>2. /\ sent' \in 0 .. NumWorkers
          /\ pc0' = "local" \/ (pc0' = "sending" /\ sent' < NumWorkers)
      BY <1>1, <1>5, <2>1, <2>3 DEF Send, Worker, Shapes
    <3>3. begun' \in [Rank -> SUBSET Int]
      <4>1. begun[0] \cup {cmd.id} \in SUBSET Int
        BY <1>1, <3>0 DEF Shapes
      <4>2. begun' = [begun EXCEPT ![0] = begun[0] \cup {cmd.id}] \/ begun' = begun
        BY <1>5, <2>3 DEF Send, Begin
      <4> QED BY <1>1, <4>1, <4>2 DEF Shapes
    <3>4. UNCHANGED <<arrived, cmd, nextId, localOk, await, toRank0, workers, done, returned, step,
                      leaving>>
      BY <1>5, <2>3 DEF Send
    <3> QED BY <1>1, <3>1, <3>2, <3>3, <3>4 DEF Shapes
  <2> QED BY <2>2, <2>3
<1>6. CASE RunLocal
  <2>1. done' \in [Rank -> Seq(Int)]
    <3>1. Append(done[0], cmd.id) \in Seq(Int)
      BY <1>1, PipeEnds DEF Shapes, Commands
    <3>2. done' = [done EXCEPT ![0] = Append(done[0], cmd.id)] \/ done' = done
      BY <1>6 DEF RunLocal, Complete
    <3> QED BY <1>1, <3>1, <3>2 DEF Shapes
  <2> QED BY <1>1, <1>6, <2>1 DEF RunLocal, Shapes
<1>7. ASSUME NEW w \in Worker, Receive(w) PROVE Shapes'
  <2>1. toRank0' \in [Worker -> Seq(Responses)]
    BY <1>1, <1>7, PipeEnds DEF Receive, Shapes
  <2>2. UNCHANGED <<arrived, cmd, nextId, sent, localOk, toWorker, workers, open, joining, history>>
    BY <1>7 DEF Receive
  <2>3. pending' \subseteq Worker /\ failures' \subseteq Worker \ pending'
    BY <1>1, <1>7 DEF Receive, Shapes
  <2>4. step' \in Seq(Methods)
    <3>1. step' = step \/ step' = <<>>
      BY <1>7 DEF Receive, RaiseToCaller
    <3>2. step \in Seq(Methods)
      BY <1>1 DEF Shapes
    <3> QED BY <3>1, <3>2, NoElements
  <2>5. pc0' \in {pc0, "idle", "closing"}
    BY <1>7 DEF Receive, RaiseToCaller
  <2> QED BY <1>1, <2>1, <2>2, <2>3, <2>4, <2>5 DEF Shapes
<1>8. CASE Join
  <2>1. wpc' = wpc \/ wpc' = [wpc EXCEPT ![joining] = "dead"]
    BY <1>8 DEF Join, ShutdownWorker
  <2>2. wpc' \in [Worker -> {"starting", "reading", "running", "replying", "raising", "closing", "dead"}]
    BY <1>1, <2>1 DEF Shapes
  <2>3. pc0' \in {pc0, "exited"} /\ pc0 = "joining"
    BY <1>8 DEF Join
  <2> QED BY <1>1, <1>8, <2>2, <2>3 DEF Join, Shapes
<1>9. CASE Exited
  BY <1>1, <1>9 DEF Exited, vars, Shapes
<1> QED BY <1>2, <1>3, <1>4, <1>5, <1>6, <1>7, <1>8, <1>9 DEF Rank0Runs

\* Every step of a worker keeps the types.
LEMMA WorkerKeepsShapes ==
  ASSUME IInv, NEW w \in Worker, WorkerRuns(w) \/ Die(w)
  PROVE  Shapes'
<1> USE DEF await, pipes, workers, leaving, history
<1>1. Shapes /\ w \in Rank
  BY TPAssumption DEF IInv, Rank, Worker
<1>2. CASE Arrive(w) \/ EnterLoop(w) \/ ReadEOF(w) \/ CloseChannel(w) \/ Die(w)
  BY <1>1, <1>2 DEF Arrive, EnterLoop, ReadEOF, CloseChannel, Die, Shapes
<1>3. CASE Read(w)
  <2>1. Head(toWorker[w]) \in Commands /\ toWorker' \in [Worker -> Seq(Commands)]
    BY <1>1, <1>3, PipeEnds DEF Read, Shapes
  <2>2. begun' \in [Rank -> SUBSET Int]
    BY <1>1, <1>3, <2>1 DEF Read, Begin, Shapes, Commands
  <2> QED BY <1>1, <1>3, <2>1, <2>2 DEF Read, Shapes
<1>4. CASE RunCommand(w)
  <2>1. done' \in [Rank -> Seq(Int)]
    <3>1. Append(done[w], wcmd[w].id) \in Seq(Int)
      BY <1>1, PipeEnds DEF Shapes, Commands
    <3>2. done' = [done EXCEPT ![w] = Append(done[w], wcmd[w].id)] \/ done' = done
      BY <1>4 DEF RunCommand, Complete
    <3> QED BY <1>1, <3>1, <3>2 DEF Shapes
  <2> QED BY <1>1, <1>4, <2>1 DEF RunCommand, Shapes
<1>5. CASE Reply(w)
  <2>1. Response(w) \in Responses
    BY <1>1 DEF Response, Responses, Shapes, Commands
  <2>2. toRank0' \in [Worker -> Seq(Responses)]
    BY <1>1, <1>5, <2>1, PipeEnds DEF Reply, Shapes
  <2> QED BY <1>1, <1>5, <2>2 DEF Reply, Shapes
<1> QED BY <1>2, <1>3, <1>4, <1>5 DEF WorkerRuns

-----------------------------------------------------------------------------
(* Steps that move no command.                                             *)

\* No command is sent, begun, completed or returned; a worker may enter its loop or end,
\* rank 0 may drop answers and leave the call.
Quiet ==
  /\ UNCHANGED <<cmd, toWorker, wcmd, history>>
  /\ \A w \in Worker : \A k \in DOMAIN toRank0'[w] :
       \E l \in DOMAIN toRank0[w] : toRank0'[w][k] = toRank0[w][l]
  /\ \A w \in Worker : \/ wpc'[w] = wpc[w]
                       \/ wpc[w] = "starting" /\ wpc'[w] = "reading"
                       \/ wpc'[w] = "dead"
  /\ \/ UNCHANGED <<pc0, sent, pending, failures, localOk>>
     \/ pc0' \notin {"sending", "local", "awaiting"}

\* A quiet step keeps what the commands and the answers say.
LEMMA QuietKeepsProgress ==
  ASSUME IInv, Quiet
  PROVE  Progress'
<1>1. /\ PipesGrow /\ Delivered /\ NoGaps /\ AcksTrue /\ Histories
      /\ UNCHANGED <<cmd, toWorker, wcmd, begun, done, returned>>
  BY DEF IInv, Progress, Quiet, history
<1>2. /\ \A r : Completed(r)' = Completed(r)
      /\ \A w : InPipe(w)' = InPipe(w)
  BY <1>1 DEF Completed, InPipe
<1>3. \A w \in Worker : /\ Busy(w)' => Busy(w) /\ wpc'[w] = wpc[w]
                        /\ Unsent(w)' => Unsent(w)
  BY DEF Quiet, Busy, Unsent
<1>4. PipesGrow'
  BY <1>1, <1>2, <1>3 DEF PipesGrow
<1>5. Delivered'
  <2> SUFFICES ASSUME NEW w \in Worker, wpc'[w] \notin {"raising", "closing", "dead"}
               PROVE  /\ \A i \in begun[0] : Owed(w, i)'
                      /\ pc0' = "sending" /\ w <= sent' => Owed(w, cmd.id)'
    BY <1>1 DEF Delivered
  <2>1. wpc[w] \notin {"raising", "closing", "dead"} /\ (wpc[w] = "running" => wpc'[w] = "running")
    BY DEF Quiet
  <2>2. \A i : Owed(w, i) => Owed(w, i)'
    BY <1>1, <1>2, <2>1 DEF Owed
  <2>3. pc0' = "sending" => pc0 = "sending" /\ sent' = sent
    BY DEF Quiet
  <2> QED BY <1>1, <2>1, <2>2, <2>3 DEF Delivered
<1>6. NoGaps'
  BY <1>1, <1>2 DEF NoGaps
<1>7. AcksTrue'
  <2>1. \A w \in Worker : wpc'[w] = "replying" => wcmd'[w].id \in Completed(w)'
    BY <1>1, <1>2, <1>3 DEF AcksTrue, Busy
  <2>2. \A w \in Worker : \A k \in DOMAIN toRank0'[w] :
          toRank0'[w][k].ok => toRank0'[w][k].id \in Completed(w)'
    BY <1>1, <1>2 DEF AcksTrue, Quiet
  <2>3. pc0' = "awaiting" => \A w \in Worker \ (pending' \cup failures') : cmd'.id \in Completed(w)'
    BY <1>1, <1>2 DEF AcksTrue, Quiet
  <2>4. \A i \in returned', w \in Worker : i \in Completed(w)'
    BY <1>1, <1>2 DEF AcksTrue
  <2> QED BY <2>1, <2>2, <2>3, <2>4 DEF AcksTrue
<1>8. Histories'
  <2>1. pc0' \in {"local", "awaiting"} => pc0' = pc0 /\ localOk' = localOk
    BY DEF Quiet
  <2>2. \A w \in Worker : wpc'[w] = "running" => wpc[w] = "running"
    BY <1>3 DEF Busy
  <2> QED BY <1>1, <1>2, <2>1, <2>2 DEF Histories
<1> QED BY <1>4, <1>5, <1>6, <1>7, <1>8 DEF Progress

\* The steps of rank 0 that are quiet.
LEMMA QuietStepsOfRank0 ==
  ASSUME IInv,
         \/ Arrive(0) \/ StartupDone \/ StartupFails \/ CloseChannels \/ AwaitFails
         \/ Exit \/ (\E plan \in Plans : Step(plan)) \/ Join \/ Exited
         \/ Send /\ wpc[sent + 1] = "dead"
         \/ AwaitDone /\ ~(failures = {} /\ localOk)
         \/ \E w \in Worker : Receive(w) /\ ~Matches(Head(toRank0[w]))
  PROVE  Quiet
<1> USE DEF await, pipes, workers, leaving, history
<1>1. Shapes
  BY DEF IInv
<1>2. CASE Arrive(0) \/ StartupDone \/ StartupFails \/ CloseChannels \/ Exit
           \/ (\E plan \in Plans : Step(plan)) \/ Exited
  BY <1>2 DEF Arrive, StartupDone, StartupFails, CloseChannels, Exit, Step, Exited, vars, Quiet
<1>3. CASE AwaitFails
  BY <1>3 DEF AwaitFails, RaiseToCaller, Quiet
<1>4. CASE Join
  BY <1>1, <1>4 DEF Join, ShutdownWorker, Quiet, Shapes
<1>5. CASE Send /\ wpc[sent + 1] = "dead"
  BY <1>5 DEF Send, RaiseToCaller, Quiet
<1>6. CASE AwaitDone /\ ~(failures = {} /\ localOk)
  BY <1>6 DEF AwaitDone, RaiseToCaller, Quiet
<1>7. ASSUME NEW w \in Worker, Receive(w), ~Matches(Head(toRank0[w])) PROVE Quiet
  <2>1. /\ toRank0[w] # <<>> /\ toRank0' = [toRank0 EXCEPT ![w] = Tail(toRank0[w])]
        /\ pc0' \in {"idle", "closing"}
        /\ UNCHANGED <<cmd, toWorker, wcmd, wpc, history>>
    BY <1>7 DEF Receive, RaiseToCaller
  <2>2. \A k \in DOMAIN Tail(toRank0[w]) : \E l \in DOMAIN toRank0[w] :
          Tail(toRank0[w])[k] = toRank0[w][l]
    BY <1>1, <2>1, PipeEnds DEF Shapes
  <2>3. \A v \in Worker : \A k \in DOMAIN toRank0'[v] :
          \E l \in DOMAIN toRank0[v] : toRank0'[v][k] = toRank0[v][l]
    BY <1>1, <2>1, <2>2 DEF Shapes
  <2> QED BY <2>1, <2>3 DEF Quiet
<1> QED BY <1>2, <1>3, <1>4, <1>5, <1>6, <1>7

\* The steps of a worker that are quiet.
LEMMA QuietStepsOfWorker ==
  ASSUME IInv, NEW w \in Worker, Arrive(w) \/ EnterLoop(w) \/ ReadEOF(w) \/ CloseChannel(w) \/ Die(w)
  PROVE  Quiet
<1> USE DEF await, pipes, workers, leaving, history
<1>1. Shapes
  BY DEF IInv
<1>2. Arrive(w) => Quiet
  BY DEF Arrive, Quiet
<1> QED BY <1>1, <1>2 DEF EnterLoop, ReadEOF, CloseChannel, Die, Quiet, Shapes

-----------------------------------------------------------------------------
(* Steps of rank 0 that move a command.                                    *)

\* A new call: its command is later than every other.
LEMMA CallKeepsProgress ==
  ASSUME IInv, Call
  PROVE  Progress'
<1> USE DEF await, pipes, workers, leaving, history
<1>1. /\ PipesGrow /\ Delivered /\ NoGaps /\ AcksTrue /\ Histories /\ Shapes
      /\ UNCHANGED <<toWorker, toRank0, wpc, wcmd, begun, done, returned>>
      /\ pc0' = "sending" /\ sent' = 0
  BY DEF IInv, Progress, Call
<1>2. /\ \A r : Completed(r)' = Completed(r)
      /\ \A w : InPipe(w)' = InPipe(w)
      /\ \A w : Busy(w)' = Busy(w)
      /\ \A w, i : Owed(w, i)' = Owed(w, i)
  BY <1>1 DEF Completed, InPipe, Busy, Owed
<1>3. cmd.id \in Int /\ cmd'.id \in Int /\ cmd.id < cmd'.id
  BY <1>1 DEF Call, Shapes, Commands
<1>4. \A w \in Worker : ~(w <= sent')
  BY <1>1, TPAssumption DEF Worker
<1>5. PipesGrow'
  <2> SUFFICES ASSUME NEW w \in Worker
               PROVE  /\ \A i \in InPipe(w) \cup Completed(w) : i <= cmd'.id /\ i < cmd'.id
                      /\ Busy(w) => wcmd[w].id <= cmd'.id /\ wcmd[w].id < cmd'.id
    BY <1>1, <1>2, <1>3 DEF PipesGrow, Unsent
  <2>1. InPipe(w) \cup Completed(w) \subseteq Int /\ wcmd[w].id \in Int
    BY <1>1, IdsAreInts
  <2>2. /\ \A i \in InPipe(w) \cup Completed(w) : i <= cmd.id
        /\ Busy(w) => wcmd[w].id <= cmd.id
    BY <1>1 DEF PipesGrow
  <2> QED BY <1>3, <2>1, <2>2
<1>6. Delivered'
  BY <1>1, <1>2, <1>4 DEF Delivered
<1>7. NoGaps'
  BY <1>1, <1>2 DEF NoGaps
<1>8. AcksTrue' /\ Histories'
  BY <1>1, <1>2 DEF AcksTrue, Histories
<1> QED BY <1>5, <1>6, <1>7, <1>8 DEF Progress

\* The command goes to one more worker; with the last one rank 0 begins it.
LEMMA SendKeepsProgress ==
  ASSUME IInv, NEW v \in Worker, v = sent + 1, Send, wpc[v] # "dead"
  PROVE  Progress'
<1> USE DEF await, pipes, workers, leaving, history
<1>1. /\ PipesGrow /\ Delivered /\ NoGaps /\ AcksTrue /\ Histories /\ Shapes
      /\ UNCHANGED <<cmd, toRank0, wpc, wcmd, done, returned>>
      /\ toWorker' = [toWorker EXCEPT ![v] = Append(toWorker[v], cmd)]
      /\ sent' = v /\ pc0 = "sending"
      /\ \/ v = NumWorkers /\ pc0' = "local" /\ begun' = [begun EXCEPT ![0] = @ \cup {cmd.id}]
         \/ v # NumWorkers /\ pc0' = "sending" /\ begun' = begun
  BY DEF IInv, Progress, Send, Begin
<1>2. sent \in Nat /\ 0 \in Rank /\ Worker \subseteq Int
  BY <1>1, TPAssumption DEF Shapes, Worker, Rank
<1>3. /\ toWorker[v] \in Seq(Commands) /\ cmd \in Commands /\ cmd.id \in Int
      /\ toWorker \in [Worker -> Seq(Commands)] /\ wcmd \in [Worker -> Commands]
      /\ begun \in [Rank -> SUBSET Int]
  BY <1>1, <1>2 DEF Shapes, Commands
<1>4. /\ \A r : Completed(r)' = Completed(r)
      /\ \A w : Busy(w)' = Busy(w)
  BY <1>1 DEF Completed, Busy
<1>5. \A w \in Worker : w # v => toWorker'[w] = toWorker[w] /\ InPipe(w)' = InPipe(w)
  BY <1>1, <1>2, <1>3 DEF InPipe
<1>6. /\ toWorker'[v] = Append(toWorker[v], cmd)
      /\ DOMAIN toWorker'[v] = 1 .. Len(toWorker[v]) + 1
      /\ DOMAIN toWorker[v] = 1 .. Len(toWorker[v]) /\ Len(toWorker[v]) \in Nat
      /\ \A k \in DOMAIN toWorker[v] : toWorker'[v][k] = toWorker[v][k]
      /\ toWorker'[v][Len(toWorker[v]) + 1] = cmd
  BY <1>1, <1>2, <1>3, PipeEnds
<1>7. InPipe(v)' = InPipe(v) \cup {cmd.id}
  <2>1. \A k \in DOMAIN toWorker'[v] : k \in DOMAIN toWorker[v] \/ k = Len(toWorker[v]) + 1
    BY <1>6
  <2>2. Len(toWorker[v]) + 1 \in DOMAIN toWorker'[v] /\ DOMAIN toWorker[v] \subseteq DOMAIN toWorker'[v]
    BY <1>6
  <2> QED BY <1>6, <2>1, <2>2 DEF InPipe
<1>8. \A w \in Worker : /\ Unsent(w)' => Unsent(w) /\ w # v
                        /\ w <= sent' => w <= sent \/ w = v
  BY <1>1, <1>2 DEF Unsent
<1>9. Unsent(v)
  BY <1>1, <1>2 DEF Unsent
<1>10. PipesGrow'
  <2>1. ASSUME NEW w \in Worker, w # v
        PROVE  /\ \A k, l \in DOMAIN toWorker'[w] : k < l => toWorker'[w][k].id < toWorker'[w][l].id
               /\ Busy(w)' => \A i \in InPipe(w)' : wcmd'[w].id < i
               /\ \A i \in InPipe(w)' \cup Completed(w)' : i <= cmd'.id /\ (Unsent(w)' => i < cmd'.id)
               /\ Busy(w)' => wcmd'[w].id <= cmd'.id /\ (Unsent(w)' => wcmd'[w].id < cmd'.id)
    BY <1>1, <1>4, <1>5, <1>8, <2>1 DEF PipesGrow
  <2>2. \A k, l \in DOMAIN toWorker'[v] : k < l => toWorker'[v][k].id < toWorker'[v][l].id
    <3> SUFFICES ASSUME NEW k \in DOMAIN toWorker'[v], NEW l \in DOMAIN toWorker'[v], k < l
                 PROVE  toWorker'[v][k].id < toWorker'[v][l].id
      OBVIOUS
    <3>1. k \in DOMAIN toWorker[v] /\ toWorker'[v][k] = toWorker[v][k]
      BY <1>6
    <3>2. CASE l \in DOMAIN toWorker[v]
      BY <1>1, <1>2, <1>6, <3>1, <3>2 DEF PipesGrow
    <3>3. CASE l = Len(toWorker[v]) + 1
      BY <1>1, <1>2, <1>6, <1>9, <3>1, <3>3 DEF PipesGrow, InPipe
    <3> QED BY <1>6, <3>2, <3>3
  <2>3. Busy(v)' => \A i \in InPipe(v)' : wcmd'[v].id < i
    BY <1>1, <1>2, <1>4, <1>7, <1>9 DEF PipesGrow
  <2>4. \A i \in InPipe(v)' \cup Completed(v)' : i <= cmd'.id /\ (Unsent(v)' => i < cmd'.id)
    BY <1>1, <1>2, <1>3, <1>4, <1>7, <1>8 DEF PipesGrow
  <2>5. Busy(v)' => wcmd'[v].id <= cmd'.id /\ (Unsent(v)' => wcmd'[v].id < cmd'.id)
    BY <1>1, <1>2, <1>4, <1>8 DEF PipesGrow
  <2> QED BY <2>1, <2>2, <2>3, <2>4, <2>5 DEF PipesGrow
<1>11. \A w \in Worker : \A i : Owed(w, i) => Owed(w, i)'
  BY <1>1, <1>4, <1>5, <1>7 DEF Owed
<1>12. Owed(v, cmd.id)'
  BY <1>1, <1>7 DEF Owed
<1>13. \A i \in begun'[0] : i \in begun[0] \/ (i = cmd.id /\ v = NumWorkers)
  BY <1>1, <1>2, <1>3
<1>14. Delivered'
  <2> SUFFICES ASSUME NEW w \in Worker, wpc[w] \notin {"raising", "closing", "dead"}
               PROVE  /\ \A i \in begun'[0] : Owed(w, i)'
                      /\ w <= sent' => Owed(w, cmd.id)'
    BY <1>1 DEF Delivered
  <2>1. w <= sent' => Owed(w, cmd.id)'
    BY <1>1, <1>8, <1>11, <1>12 DEF Delivered
  <2>2. v = NumWorkers => w <= sent'
    BY <1>1 DEF Worker
  <2> QED BY <1>1, <1>11, <1>13, <2>1, <2>2 DEF Delivered
<1>15. NoGaps'
  <2> SUFFICES ASSUME NEW w \in Worker, NEW i \in Completed(w), NEW j \in begun'[0], j <= i
               PROVE  j \in Completed(w)
    BY <1>4 DEF NoGaps
  <2>1. CASE j \in begun[0]
    BY <1>1, <2>1 DEF NoGaps
  <2>2. CASE j = cmd.id
    <3>1. i <= cmd.id /\ i \in Int
      BY <1>1, IdsAreInts DEF PipesGrow
    <3> QED BY <1>3, <2>2, <3>1
  <2> QED BY <1>13, <2>1, <2>2
<1>16. AcksTrue' /\ Histories'
  <2>1. AcksTrue'
    BY <1>1, <1>4 DEF AcksTrue
  <2>2. \A r : begun[r] \subseteq begun'[r] \/ r \notin Rank
    BY <1>1, <1>3
  <2>3. pc0' \in {"local", "awaiting"} => cmd'.id \in begun'[0]
    BY <1>1, <1>2, <1>3
  <2>4. \A w \in Worker : wpc'[w] = "running" => wcmd'[w].id \in begun'[w]
    BY <1>1, <2>2 DEF Histories, Worker, Rank
  <2>5. \A r \in Rank : Completed(r)' \subseteq begun'[r]
    BY <1>1, <1>4, <2>2 DEF Histories
  <2> QED BY <1>1, <1>4, <2>1, <2>3, <2>4, <2>5 DEF Histories
<1> QED BY <1>10, <1>14, <1>15, <1>16 DEF Progress

\* Rank 0 runs the method itself.
LEMMA RunLocalKeepsProgress ==
  ASSUME IInv, RunLocal
  PROVE  Progress'
<1> USE DEF await, pipes, workers, leaving, history
<1>1. /\ PipesGrow /\ Delivered /\ NoGaps /\ AcksTrue /\ Histories /\ Shapes
      /\ UNCHANGED <<cmd, toWorker, toRank0, wpc, wcmd, begun, returned>>
      /\ \/ localOk' = TRUE /\ done' = [done EXCEPT ![0] = Append(done[0], cmd.id)]
         \/ localOk' = FALSE /\ done' = done
      /\ pc0 = "local" /\ pc0' = "awaiting" /\ pending' = Worker /\ failures' = {}
  BY DEF IInv, Progress, RunLocal, Complete
<1>2. 0 \in Rank /\ Worker \subseteq Rank /\ 0 \notin Worker
  BY TPAssumption DEF Worker, Rank
<1>3. /\ \A w \in Worker : Completed(w)' = Completed(w)
      /\ \A r \in Rank : Completed(r) \subseteq Completed(r)'
      /\ \A r \in Rank : Completed(r)' \subseteq Completed(r) \cup (IF r = 0 THEN {cmd.id} ELSE {})
      /\ localOk' => cmd.id \in Completed(0)'
  <2>1. done \in [Rank -> Seq(Int)] /\ cmd.id \in Int
    BY <1>1 DEF Shapes, Commands
  <2>2. Range(Append(done[0], cmd.id)) = Range(done[0]) \cup {cmd.id}
    BY <1>2, <2>1, PipeEnds
  <2>3. \A r : Completed(r)' = Range(done'[r])
    BY DEF Completed, ToSet, Range
  <2> QED BY <1>1, <1>2, <2>1, <2>2, <2>3, CompletedIsRange
<1>4. /\ \A w : InPipe(w)' = InPipe(w)
      /\ \A w : Busy(w)' = Busy(w)
      /\ \A w : ~Unsent(w)'
      /\ \A w \in Worker : \A i : Owed(w, i)' = Owed(w, i)
  BY <1>1, <1>3 DEF InPipe, Busy, Unsent, Owed
<1>5. PipesGrow'
  BY <1>1, <1>3, <1>4 DEF PipesGrow
<1>6. Delivered' /\ NoGaps'
  BY <1>1, <1>3, <1>4 DEF Delivered, NoGaps
<1>7. AcksTrue'
  BY <1>1, <1>3 DEF AcksTrue
<1>8. Histories'
  <2>1. \A r \in Rank : Completed(r)' \subseteq begun'[r]
    BY <1>1, <1>2, <1>3 DEF Histories
  <2> QED BY <1>1, <1>2, <1>3, <2>1 DEF Histories
<1> QED BY <1>5, <1>6, <1>7, <1>8 DEF Progress

\* An answer to the current command is counted.
LEMMA ReceiveKeepsProgress ==
  ASSUME IInv, NEW v \in Worker, Receive(v), Matches(Head(toRank0[v]))
  PROVE  Progress'
<1> USE DEF await, pipes, workers, leaving, history
<1>1. /\ PipesGrow /\ Delivered /\ NoGaps /\ AcksTrue /\ Histories /\ Shapes
      /\ UNCHANGED <<cmd, toWorker, wpc, wcmd, begun, done, returned, pc0, sent, localOk>>
      /\ toRank0[v] # <<>> /\ toRank0' = [toRank0 EXCEPT ![v] = Tail(toRank0[v])]
      /\ pending' = pending \ {v} /\ pc0 = "awaiting"
      /\ failures' = IF Head(toRank0[v]).ok THEN failures ELSE failures \cup {v}
      /\ Head(toRank0[v]).id = cmd.id
  BY DEF IInv, Progress, Receive, Matches
<1>2. /\ \A r : Completed(r)' = Completed(r)
      /\ \A w : InPipe(w)' = InPipe(w)
      /\ \A w : Busy(w)' = Busy(w)
      /\ \A w : Unsent(w)' = Unsent(w)
      /\ \A w, i : Owed(w, i)' = Owed(w, i)
  BY <1>1 DEF Completed, InPipe, Busy, Unsent, Owed
<1>3. PipesGrow' /\ Delivered' /\ NoGaps' /\ Histories'
  BY <1>1, <1>2 DEF PipesGrow, Delivered, NoGaps, Histories
<1>4. AcksTrue'
  <2>1. /\ 1 \in DOMAIN toRank0[v] /\ Head(toRank0[v]) = toRank0[v][1]
        /\ \A k \in DOMAIN Tail(toRank0[v]) : k + 1 \in DOMAIN toRank0[v]
                                              /\ Tail(toRank0[v])[k] = toRank0[v][k + 1]
    BY <1>1, PipeEnds DEF Shapes
  <2>2. Head(toRank0[v]).ok => cmd.id \in Completed(v)
    BY <1>1, <2>1 DEF AcksTrue
  <2>3. \A w \in Worker : \A k \in DOMAIN toRank0'[w] :
          toRank0'[w][k].ok => toRank0'[w][k].id \in Completed(w)
    BY <1>1, <2>1 DEF AcksTrue, Shapes
  <2>4. \A w \in Worker \ (pending' \cup failures') : cmd.id \in Completed(w)
    BY <1>1, <2>2 DEF AcksTrue
  <2> QED BY <1>1, <1>2, <2>3, <2>4 DEF AcksTrue
<1> QED BY <1>3, <1>4 DEF Progress

\* The call returns: every worker has acknowledged the command.
LEMMA AwaitDoneKeepsProgress ==
  ASSUME IInv, AwaitDone, failures = {}, localOk
  PROVE  Progress'
<1> USE DEF await, pipes, workers, leaving, history
<1>1. /\ PipesGrow /\ Delivered /\ NoGaps /\ AcksTrue /\ Histories /\ Shapes
      /\ UNCHANGED <<cmd, toWorker, toRank0, wpc, wcmd, begun, done>>
      /\ returned' = returned \cup {cmd.id}
      /\ pc0 = "awaiting" /\ pending = {} /\ pc0' \in {"idle", "closing"}
  BY DEF IInv, Progress, AwaitDone
<1>2. /\ \A r : Completed(r)' = Completed(r)
      /\ \A w : InPipe(w)' = InPipe(w)
      /\ \A w : Busy(w)' = Busy(w)
      /\ \A w : ~Unsent(w)'
      /\ \A w, i : Owed(w, i)' = Owed(w, i)
  BY <1>1 DEF Completed, InPipe, Busy, Unsent, Owed
<1>3. PipesGrow' /\ Delivered' /\ NoGaps'
  BY <1>1, <1>2 DEF PipesGrow, Delivered, NoGaps
<1>4. \A w \in Worker : cmd.id \in Completed(w)
  BY <1>1 DEF AcksTrue
<1>5. AcksTrue' /\ Histories'
  BY <1>1, <1>2, <1>4 DEF AcksTrue, Histories
<1> QED BY <1>3, <1>5 DEF Progress

-----------------------------------------------------------------------------
(* Steps of a worker that move a command.                                  *)

\* The worker reads its next command and begins it.
LEMMA ReadKeepsProgress ==
  ASSUME IInv, NEW v \in Worker, Read(v)
  PROVE  Progress'
<1> USE DEF await, pipes, workers, leaving, history
<1> DEFINE next == Head(toWorker[v])
<1>1. /\ PipesGrow /\ Delivered /\ NoGaps /\ AcksTrue /\ Histories /\ Shapes
      /\ UNCHANGED <<cmd, toRank0, done, returned, pc0, sent, localOk, pending, failures>>
      /\ wpc[v] = "reading" /\ toWorker[v] # <<>>
      /\ toWorker' = [toWorker EXCEPT ![v] = Tail(toWorker[v])]
      /\ wcmd' = [wcmd EXCEPT ![v] = next]
      /\ wpc' = [wpc EXCEPT ![v] = "running"]
      /\ begun' = [begun EXCEPT ![v] = begun[v] \cup {next.id}]
  BY DEF IInv, Progress, Read, Begin
<1>2. /\ 0 \in Rank /\ 0 # v /\ Worker \subseteq Rank
      /\ toWorker \in [Worker -> Seq(Commands)] /\ wcmd \in [Worker -> Commands]
      /\ begun \in [Rank -> SUBSET Int] /\ cmd.id \in Int
      /\ wpc \in [Worker -> {"starting", "reading", "running", "replying", "raising", "closing", "dead"}]
  <2>1. 0 \in Rank /\ 0 # v /\ Worker \subseteq Rank
    BY TPAssumption DEF Worker, Rank
  <2> QED BY <1>1, <2>1, IdsAreInts DEF Shapes
<1>3. /\ 1 \in DOMAIN toWorker[v] /\ next = toWorker[v][1] /\ next.id \in Int
      /\ DOMAIN toWorker[v] = 1 .. Len(toWorker[v]) /\ Len(toWorker[v]) \in Nat
      /\ DOMAIN Tail(toWorker[v]) = 1 .. Len(toWorker[v]) - 1
      /\ \A k \in DOMAIN Tail(toWorker[v]) : /\ k + 1 \in DOMAIN toWorker[v]
                                             /\ Tail(toWorker[v])[k] = toWorker[v][k + 1]
  <2>1. toWorker[v] \in Seq(Commands) /\ \A k \in DOMAIN toWorker[v] : toWorker[v][k].id \in Int
    BY <1>1, IdsAreInts
  <2> QED BY <1>1, <2>1, PipeEnds
<1>4. /\ \A r : Completed(r)' = Completed(r)
      /\ \A w : Unsent(w)' = Unsent(w)
      /\ begun'[0] = begun[0]
  BY <1>1, <1>2 DEF Completed, Unsent
<1> HIDE DEF next
<1>5. \A w \in Worker : w # v =>
        /\ toWorker'[w] = toWorker[w] /\ InPipe(w)' = InPipe(w)
        /\ wcmd'[w] = wcmd[w] /\ wpc'[w] = wpc[w] /\ Busy(w)' = Busy(w)
        /\ \A i : Owed(w, i)' = Owed(w, i)
  BY <1>1, <1>2, <1>4 DEF InPipe, Busy, Owed
<1>6. /\ toWorker'[v] = Tail(toWorker[v]) /\ wcmd'[v] = next /\ wpc'[v] = "running"
  BY <1>1, <1>2
<1>7. next.id \in InPipe(v) /\ InPipe(v)' \subseteq InPipe(v)
  BY <1>3, <1>6 DEF InPipe
<1>8. InPipe(v) \subseteq InPipe(v)' \cup {next.id}
  <2> SUFFICES ASSUME NEW k \in DOMAIN toWorker[v]
               PROVE  toWorker[v][k].id \in InPipe(v)' \cup {next.id}
    BY DEF InPipe
  <2>1. CASE k = 1
    BY <1>3, <2>1
  <2>2. CASE k # 1
    <3>1. k - 1 \in DOMAIN Tail(toWorker[v]) /\ (k - 1) + 1 = k
      BY <1>3, <2>2
    <3>2. Tail(toWorker[v])[k - 1] = toWorker[v][k]
      BY <1>3, <3>1
    <3> QED BY <1>6, <3>1, <3>2 DEF InPipe
  <2> QED BY <2>1, <2>2
<1>9. \A i \in InPipe(v)' : next.id < i
  <2> SUFFICES ASSUME NEW k \in DOMAIN Tail(toWorker[v])
               PROVE  next.id < Tail(toWorker[v])[k].id
    BY <1>6 DEF InPipe
  <2>1. k + 1 \in DOMAIN toWorker[v] /\ 1 < k + 1 /\ Tail(toWorker[v])[k] = toWorker[v][k + 1]
    BY <1>3
  <2> QED BY <1>1, <1>3, <2>1 DEF PipesGrow
<1>10. PipesGrow'
  <2>1. ASSUME NEW w \in Worker, w # v
        PROVE  /\ \A k, l \in DOMAIN toWorker'[w] : k < l => toWorker'[w][k].id < toWorker'[w][l].id
               /\ Busy(w)' => \A i \in InPipe(w)' : wcmd'[w].id < i
               /\ \A i \in InPipe(w)' \cup Completed(w)' : i <= cmd'.id /\ (Unsent(w)' => i < cmd'.id)
               /\ Busy(w)' => wcmd'[w].id <= cmd'.id /\ (Unsent(w)' => wcmd'[w].id < cmd'.id)
    BY <1>1, <1>4, <1>5, <2>1 DEF PipesGrow
  <2>2. \A k, l \in DOMAIN toWorker'[v] : k < l => toWorker'[v][k].id < toWorker'[v][l].id
    <3> SUFFICES ASSUME NEW k \in DOMAIN Tail(toWorker[v]), NEW l \in DOMAIN Tail(toWorker[v]), k < l
                 PROVE  Tail(toWorker[v])[k].id < Tail(toWorker[v])[l].id
      BY <1>6
    <3>1. k + 1 < l + 1
      BY <1>3
    <3> QED BY <1>1, <1>3, <3>1 DEF PipesGrow
  <2>3. /\ \A i \in InPipe(v)' \cup Completed(v)' : i <= cmd'.id /\ (Unsent(v)' => i < cmd'.id)
        /\ wcmd'[v].id <= cmd'.id /\ (Unsent(v)' => wcmd'[v].id < cmd'.id)
    BY <1>1, <1>4, <1>6, <1>7 DEF PipesGrow
  <2> QED BY <1>6, <1>9, <2>1, <2>2, <2>3 DEF PipesGrow
<1>11. Delivered'
  <2>1. \A i : Owed(v, i) => Owed(v, i)'
    BY <1>1, <1>4, <1>6, <1>8 DEF Owed
  <2> QED BY <1>1, <1>4, <1>5, <2>1 DEF Delivered
<1>12. NoGaps'
  BY <1>1, <1>4 DEF NoGaps
<1>13. AcksTrue'
  BY <1>1, <1>4, <1>5, <1>6 DEF AcksTrue
<1>14. Histories'
  <2>1. next.id \in begun'[v] /\ \A r \in Rank : begun[r] \subseteq begun'[r]
    BY <1>1, <1>2
  <2> QED BY <1>1, <1>2, <1>4, <1>5, <1>6, <2>1 DEF Histories
<1> QED BY <1>10, <1>11, <1>12, <1>13, <1>14 DEF Progress

\* The worker runs the command, or the method raises.
LEMMA RunCommandKeepsProgress ==
  ASSUME IInv, NEW v \in Worker, RunCommand(v)
  PROVE  Progress'
<1> USE DEF await, pipes, workers, leaving, history
<1>1. /\ PipesGrow /\ Delivered /\ NoGaps /\ AcksTrue /\ Histories /\ Shapes
      /\ UNCHANGED <<cmd, toWorker, toRank0, wcmd, begun, returned, pc0, sent, localOk, pending,
                     failures>>
      /\ wpc[v] = "running"
      /\ \/ done' = [done EXCEPT ![v] = Append(done[v], wcmd[v].id)]
            /\ wpc' = [wpc EXCEPT ![v] = "replying"]
         \/ done' = done /\ wpc' = [wpc EXCEPT ![v] = "raising"]
  BY DEF IInv, Progress, RunCommand, Complete
<1>2. /\ 0 \in Rank /\ 0 # v /\ v \in Rank /\ Worker \subseteq Rank
      /\ wcmd[v].id \in Int /\ cmd.id \in Int /\ done \in [Rank -> Seq(Int)]
      /\ wpc \in [Worker -> {"starting", "reading", "running", "replying", "raising", "closing", "dead"}]
  <2>1. 0 \in Rank /\ 0 # v /\ Worker \subseteq Rank
    BY TPAssumption DEF Worker, Rank
  <2> QED BY <1>1, <2>1, IdsAreInts DEF Shapes
<1>3. /\ \A r \in Rank : r # v => Completed(r)' = Completed(r)
      /\ wpc'[v] = "replying" => Completed(v)' = Completed(v) \cup {wcmd[v].id}
      /\ wpc'[v] = "raising" => Completed(v)' = Completed(v)
      /\ wpc'[v] \in {"replying", "raising"}
      /\ Completed(v) \subseteq Completed(v)'
      /\ Completed(v)' \subseteq Completed(v) \cup {wcmd[v].id}
  <2>1. Range(Append(done[v], wcmd[v].id)) = Range(done[v]) \cup {wcmd[v].id}
    BY <1>2, PipeEnds
  <2>2. \A r : Completed(r)' = Range(done'[r])
    BY DEF Completed, ToSet, Range
  <2> QED BY <1>1, <1>2, <2>1, <2>2, CompletedIsRange
<1>4. /\ \A w : InPipe(w)' = InPipe(w)
      /\ \A w : Unsent(w)' = Unsent(w)
      /\ Busy(v) /\ Busy(v)'
  BY <1>1, <1>3 DEF InPipe, Unsent, Busy
<1>5. \A w \in Worker : w # v => /\ wpc'[w] = wpc[w] /\ Busy(w)' = Busy(w)
                                 /\ Completed(w)' = Completed(w)
                                 /\ \A i : Owed(w, i)' = Owed(w, i)
  BY <1>1, <1>2, <1>3, <1>4 DEF Busy, Owed
<1>6. PipesGrow'
  <2>1. \A i \in Completed(v)' : i <= cmd.id /\ (Unsent(v) => i < cmd.id)
    BY <1>1, <1>3, <1>4 DEF PipesGrow
  <2>2. \A w \in Worker : Busy(w)' => Busy(w)
    BY <1>4, <1>5
  <2> QED BY <1>1, <1>4, <1>5, <2>1, <2>2 DEF PipesGrow
<1>7. Delivered'
  <2>1. wpc'[v] # "raising" => \A i : Owed(v, i) => Owed(v, i)'
    BY <1>1, <1>3, <1>4 DEF Owed
  <2> QED BY <1>1, <1>3, <1>5, <2>1 DEF Delivered
<1>8. NoGaps'
  <2> SUFFICES ASSUME wpc'[v] = "replying", NEW j \in begun[0], j <= wcmd[v].id
               PROVE  j \in Completed(v)'
    BY <1>1, <1>3, <1>5 DEF NoGaps
  <2>1. Owed(v, j) /\ j \in Int
    BY <1>1, <1>2 DEF Delivered, Shapes
  <2>2. j \notin InPipe(v)
    BY <1>1, <1>2, <1>4, <2>1 DEF PipesGrow
  <2> QED BY <1>3, <2>1, <2>2 DEF Owed
<1>9. AcksTrue'
  <2>1. \A w \in Worker : Completed(w) \subseteq Completed(w)'
    BY <1>3, <1>5
  <2> QED BY <1>1, <1>3, <1>5, <2>1 DEF AcksTrue
<1>10. Histories'
  <2>1. Completed(0)' = Completed(0) /\ \A r \in Rank : Completed(r)' \subseteq begun[r]
    BY <1>1, <1>2, <1>3 DEF Histories
  <2>2. \A w \in Worker : wpc'[w] = "running" => wpc[w] = "running"
    BY <1>3, <1>5
  <2> QED BY <1>1, <2>1, <2>2 DEF Histories
<1> QED BY <1>6, <1>7, <1>8, <1>9, <1>10 DEF Progress

\* The worker answers, and stays in its loop or ends.
LEMMA ReplyKeepsProgress ==
  ASSUME IInv, NEW v \in Worker, Reply(v)
  PROVE  Progress'
<1> USE DEF await, pipes, workers, leaving, history
<1>1. /\ PipesGrow /\ Delivered /\ NoGaps /\ AcksTrue /\ Histories /\ Shapes
      /\ UNCHANGED <<cmd, toWorker, wcmd, begun, done, returned, pc0, sent, localOk, pending,
                     failures>>
      /\ wpc[v] \in {"replying", "raising"}
      /\ wpc' = [wpc EXCEPT ![v] = IF StaysInLoop(v) THEN "reading" ELSE "closing"]
      /\ \/ toRank0' = [toRank0 EXCEPT ![v] = Append(toRank0[v], Response(v))]
         \/ toRank0' = toRank0
  BY DEF IInv, Progress, Reply
<1>2. /\ wpc \in [Worker -> {"starting", "reading", "running", "replying", "raising", "closing", "dead"}]
      /\ toRank0 \in [Worker -> Seq(Responses)] /\ Response(v) \in Responses
  BY <1>1 DEF Shapes, Response, Responses, Commands
<1>3. /\ \A r : Completed(r)' = Completed(r)
      /\ \A w : InPipe(w)' = InPipe(w)
      /\ \A w : Unsent(w)' = Unsent(w)
  BY <1>1 DEF Completed, InPipe, Unsent
<1>4. /\ \A w \in Worker : w # v => /\ wpc'[w] = wpc[w] /\ Busy(w)' = Busy(w)
                                    /\ \A i : Owed(w, i)' = Owed(w, i)
      /\ wpc'[v] \in {"reading", "closing"} /\ ~Busy(v)'
      /\ wpc'[v] = "reading" => wpc[v] = "replying"
  BY <1>1, <1>2, <1>3 DEF Busy, Owed, StaysInLoop
<1>5. PipesGrow'
  BY <1>1, <1>3, <1>4 DEF PipesGrow
<1>6. Delivered'
  <2>1. wpc'[v] = "reading" => \A i : Owed(v, i) => Owed(v, i)'
    BY <1>3, <1>4 DEF Owed
  <2> QED BY <1>1, <1>4, <2>1 DEF Delivered
<1>7. NoGaps'
  BY <1>1, <1>3 DEF NoGaps
<1>8. AcksTrue'
  <2>1. Response(v).ok => Response(v).id \in Completed(v)
    BY <1>1 DEF Response, AcksTrue
  <2>2. \A w \in Worker : \A k \in DOMAIN toRank0'[w] :
          toRank0'[w][k].ok => toRank0'[w][k].id \in Completed(w)
    <3> SUFFICES ASSUME toRank0' = [toRank0 EXCEPT ![v] = Append(toRank0[v], Response(v))],
                        NEW k \in DOMAIN toRank0'[v], toRank0'[v][k].ok
                 PROVE  toRank0'[v][k].id \in Completed(v)
      BY <1>1, <1>2 DEF AcksTrue
    <3>1. /\ toRank0[v] \in Seq(Responses) /\ toRank0'[v] = Append(toRank0[v], Response(v))
      BY <1>2
    <3>2. /\ k \in DOMAIN toRank0[v] \/ k = Len(toRank0[v]) + 1
          /\ k \in DOMAIN toRank0[v] => toRank0'[v][k] = toRank0[v][k]
          /\ k = Len(toRank0[v]) + 1 => toRank0'[v][k] = Response(v)
      BY <1>2, <3>1, PipeEnds
    <3> QED BY <1>1, <2>1, <3>2 DEF AcksTrue
  <2> QED BY <1>1, <1>3, <1>4, <2>2 DEF AcksTrue
<1>9. Histories'
  BY <1>1, <1>3, <1>4 DEF Histories
<1> QED BY <1>5, <1>6, <1>7, <1>8, <1>9 DEF Progress

-----------------------------------------------------------------------------
(* The invariant and what follows from it.                                 *)

\* The initial state: nothing is sent.
LEMMA InitEstablishes ==
  ASSUME Init
  PROVE  IInv
<1>1. 0 \in Rank /\ 0 \in 0 .. NumWorkers /\ NumWorkers \in Nat
  BY TPAssumption DEF Rank
<1>2. \A S : <<>> \in Seq(S) /\ DOMAIN <<>> = {}
  BY NoElements, EmptySeq
<1>3. Shapes
  <2>1. NoCommand \in Commands /\ NoCommand.id = -1
    BY DEF NoCommand, Commands, Methods
  <2> QED BY <1>1, <1>2, <2>1 DEF Init, Shapes
<1>4. /\ \A r \in Rank : Completed(r) = {}
      /\ \A w \in Worker : InPipe(w) = {} /\ ~Busy(w) /\ w \in Rank
  BY <1>2 DEF Init, Completed, ToSet, InPipe, Busy, Rank, Worker
<1>5. PipesGrow
  BY <1>2, <1>4 DEF Init, PipesGrow
<1>6. Delivered /\ NoGaps
  BY <1>1, <1>4 DEF Init, Delivered, NoGaps
<1>7. AcksTrue /\ Histories
  BY <1>2, <1>4 DEF Init, AcksTrue, Histories
<1> QED BY <1>3, <1>5, <1>6, <1>7 DEF IInv, Progress

\* Every step keeps the invariant.
LEMMA NextKeeps ==
  ASSUME IInv, [Next]_vars
  PROVE  IInv'
<1>1. CASE \/ Rank0Runs \/ StartupFails \/ Exit \/ (\E plan \in Plans : Step(plan)) \/ Exited
  <2>1. Shapes'
    BY <1>1, Rank0KeepsShapes
  <2>2. Progress'
    <3>1. CASE \/ Arrive(0) \/ StartupDone \/ StartupFails \/ CloseChannels \/ AwaitFails
               \/ Exit \/ (\E plan \in Plans : Step(plan)) \/ Join \/ Exited
      BY <3>1, QuietStepsOfRank0, QuietKeepsProgress
    <3>2. CASE Call
      BY <3>2, CallKeepsProgress
    <3>3. CASE Send
      <4>1. sent + 1 \in Worker
        BY <3>3, TPAssumption DEF Send, IInv, Shapes, Worker
      <4> QED BY <3>3, <4>1, SendKeepsProgress, QuietStepsOfRank0, QuietKeepsProgress
    <3>4. CASE RunLocal
      BY <3>4, RunLocalKeepsProgress
    <3>5. ASSUME NEW w \in Worker, Receive(w) PROVE Progress'
      BY <3>5, ReceiveKeepsProgress, QuietStepsOfRank0, QuietKeepsProgress
    <3>6. CASE AwaitDone
      BY <3>6, AwaitDoneKeepsProgress, QuietStepsOfRank0, QuietKeepsProgress
    <3> QED BY <1>1, <3>1, <3>2, <3>3, <3>4, <3>5, <3>6 DEF Rank0Runs
  <2> QED BY <2>1, <2>2 DEF IInv
<1>2. ASSUME NEW w \in Worker, WorkerRuns(w) \/ Die(w) PROVE IInv'
  <2>1. Shapes'
    BY <1>2, WorkerKeepsShapes
  <2>2. CASE Arrive(w) \/ EnterLoop(w) \/ ReadEOF(w) \/ CloseChannel(w) \/ Die(w)
    BY <2>1, <2>2, QuietStepsOfWorker, QuietKeepsProgress DEF IInv
  <2>3. CASE Read(w)
    BY <2>1, <2>3, ReadKeepsProgress DEF IInv
  <2>4. CASE RunCommand(w)
    BY <2>1, <2>4, RunCommandKeepsProgress DEF IInv
  <2>5. CASE Reply(w)
    BY <2>1, <2>5, ReplyKeepsProgress DEF IInv
  <2> QED BY <1>2, <2>2, <2>3, <2>4, <2>5 DEF WorkerRuns
<1>3. CASE UNCHANGED vars
  <2>1. Shapes'
    BY <1>3 DEF IInv, vars, Shapes, await, pipes, workers, leaving, history
  <2>2. Quiet
    BY <1>3 DEF vars, Quiet, await, pipes, workers, leaving, history
  <2> QED BY <2>1, <2>2, QuietKeepsProgress DEF IInv
<1> QED BY <1>1, <1>2, <1>3 DEF Next

\* The command channel keeps its invariant: what every worker owes rank 0.
THEOREM TPInvariant == Spec => []IInv
<1>1. Init => IInv
  BY InitEstablishes
<1>2. IInv /\ [Next]_vars => IInv'
  BY NextKeeps
<1> QED BY <1>1, <1>2, PTL DEF Spec

\* TPControlPlane and ModelRunner.loop: every variable has its type, a pipe holds commands
\* that were issued, and no rank completes what it has not begun.
THEOREM TPTypes == Spec => []TypeOK
<1>1. IInv => TypeOK
  <2> SUFFICES ASSUME IInv PROVE TypeOK
    OBVIOUS
  <2>1. Shapes /\ PipesGrow /\ Histories /\ Worker \subseteq Rank
    BY DEF IInv, Progress, Worker, Rank
  <2>2. ASSUME NEW w \in Worker, NEW i \in DOMAIN toWorker[w]
        PROVE  toWorker[w][i].id < nextId
    <3>1. toWorker[w][i].id <= cmd.id
      BY <2>1 DEF PipesGrow, InPipe
    <3>2. toWorker[w][i].id \in Int
      BY <2>1, IdsAreInts
    <3>3. cmd.id \in Int /\ nextId \in Int /\ cmd.id < nextId
      BY <2>1 DEF Shapes, Commands
    <3> QED BY <3>1, <3>2, <3>3
  <2> QED BY <2>1, <2>2 DEF TypeOK, Shapes, Histories
<1> QED BY <1>1, TPInvariant, PTL

\* ModelRunner.call: when it returns, every worker has completed every command of rank 0.
THEOREM TPWorkersCaughtUp == Spec => []WorkersCaughtUp
<1>1. IInv => WorkersCaughtUp
  <2> SUFFICES ASSUME IInv, NEW i \in returned, NEW w \in Worker,
                      NEW j \in Completed(0), j <= i
               PROVE  j \in Completed(w)
    BY DEF WorkersCaughtUp
  <2>1. i \in Completed(w)
    BY DEF IInv, Progress, AcksTrue
  <2>2. j \in begun[0]
    BY TPAssumption DEF IInv, Progress, Histories, Rank
  <2> QED BY <2>1, <2>2 DEF IInv, Progress, NoGaps
<1> QED BY <1>1, TPInvariant, PTL
=============================================================================
