----------------------------- MODULE TPControl -----------------------------
(***************************************************************************)
(* Tensor-parallel control: rank 0 and its worker processes.                *)
(* prism_infer/engine/tp_control.py (TPControlPlane), model_runner.py       *)
(* (call, loop, exit, startup), llm_engine.py (spawn and exit) and the      *)
(* command order of executor.py (ModelExecutor.execute).                    *)
(*                                                                         *)
(* Every pipe is reliable and ordered; a worker may be arbitrarily slow, a  *)
(* method may raise on any rank, a worker may die at any moment.  Methods   *)
(* are commands with an identity: what they compute is left out, which      *)
(* ranks have run them is kept.                                             *)
(***************************************************************************)
EXTENDS Integers, Sequences, FiniteSets, SequencesExt

CONSTANTS
  NumWorkers,    (* tensor_parallel_size - 1                                *)
  Plans,         (* the batch plans, as the transfers each of them carries  *)
  MaxCommands,   (* bound on the commands that rank 0 issues                *)
  MayFail        (* methods may raise, waits time out and workers die       *)

ASSUME TPAssumption ==
  /\ NumWorkers \in Nat \ {0} /\ MaxCommands \in Nat /\ MayFail \in BOOLEAN

Worker == 1 .. NumWorkers
Rank == 0 .. NumWorkers

VARIABLES
  arrived,   (* the ranks that have reached the startup barrier             *)
  pc0,       (* where rank 0 is                                             *)
  step,      (* the methods that the current step still has to call         *)
  cmd,       (* the command of the current call                             *)
  nextId,    (* TPControlPlane._next_request_id                             *)
  sent,      (* how many workers have been sent the command                 *)
  localOk,   (* did rank 0's own method return?                             *)
  pending,   (* await_responses: workers without an answer                  *)
  failures,  (* await_responses: workers that answered with an error        *)
  toWorker,  (* the command pipe of every worker                            *)
  toRank0,   (* the response pipe of every worker                           *)
  open,      (* rank 0's end of every pipe is open                          *)
  wpc,       (* where every worker is                                       *)
  wcmd,      (* the command a worker runs or answers                        *)
  failure,   (* exit has met a failure                                      *)
  joining,   (* the worker process that exit waits for                      *)
  begun,     (* history: the commands every rank has begun                  *)
  done,      (* history: the commands every rank has completed, in order    *)
  returned   (* history: the commands whose call returned normally          *)

pipes == <<toWorker, toRank0>>
await == <<pending, failures>>
workers == <<wpc, wcmd>>
leaving == <<open, failure, joining>>
history == <<begun, done, returned>>
vars == <<arrived, pc0, step, cmd, nextId, sent, localOk, await, pipes, workers,
          leaving, history>>

NoCommand == [id |-> -1, method |-> "none"]

Init ==
  /\ arrived = {} /\ pc0 = "starting" /\ step = <<>>
  /\ cmd = NoCommand /\ nextId = 0 /\ sent = 0 /\ localOk = TRUE
  /\ pending = {} /\ failures = {}
  /\ toWorker = [w \in Worker |-> <<>>] /\ toRank0 = [w \in Worker |-> <<>>]
  /\ open = [w \in Worker |-> TRUE]
  /\ wpc = [w \in Worker |-> "starting"] /\ wcmd = [w \in Worker |-> NoCommand]
  /\ failure = FALSE /\ joining = 0
  /\ begun = [r \in Rank |-> {}] /\ done = [r \in Rank |-> <<>>] /\ returned = {}

-----------------------------------------------------------------------------
(* What a step calls.                                                      *)

When(needed, method) == IF needed THEN <<method>> ELSE <<>>

\* ModelExecutor.execute for a plan that is not the single greedy decode of the fast
\* path: KV transfers in this order, the model, then the compaction of a prefill.
OrdinaryCommands(plan) ==
  When("swap_in" \in plan, "swap_in") \o When("swap_out" \in plan, "swap_out")
    \o When("copy_prefix" \in plan, "copy_kv_block_prefixes")
    \o When("copy_on_write" \in plan, "copy_kv_blocks")
    \o <<"run_plan">> \o When("compaction" \in plan, "compact_kv_cache")

FastDecode == "execute_single_greedy_decode_cudagraph_state"

StepCommands(plan) == IF "fast" \in plan THEN <<FastDecode>> ELSE OrdinaryCommands(plan)

\* The methods that meet the other ranks in an NCCL collective or barrier.
Collective(method) == method \in {"run_plan", FastDecode, "compact_kv_cache", "exit"}

\* A rank leaves a collective when every rank has entered it.
AllInside(c) == \A r \in Rank : c.id \in begun[r]

CanComplete(c) == Collective(c.method) => AllInside(c)

\* A method raises by itself, or because its collective waits too long.
CanRaise == MayFail

-----------------------------------------------------------------------------
(* Startup: ModelRunner.__init__ on every rank, and its barrier.            *)

Arrive(r) ==
  /\ r \notin arrived
  /\ IF r = 0 THEN pc0 = "starting" ELSE wpc[r] = "starting"
  /\ arrived' = arrived \cup {r}
  /\ UNCHANGED <<pc0, step, cmd, nextId, sent, localOk, await, pipes, workers, leaving, history>>

\* The worker enters its command loop.
EnterLoop(w) ==
  /\ wpc[w] = "starting" /\ arrived = Rank
  /\ wpc' = [wpc EXCEPT ![w] = "reading"]
  /\ UNCHANGED <<arrived, pc0, step, cmd, nextId, sent, localOk, await, pipes, wcmd,
                 leaving, history>>

StartupDone ==
  /\ pc0 = "starting" /\ arrived = Rank
  /\ pc0' = "idle"
  /\ UNCHANGED <<arrived, step, cmd, nextId, sent, localOk, await, pipes, workers,
                 leaving, history>>

\* Rank 0's startup raises: channels are closed and every process is ended.
StartupFails ==
  /\ pc0 = "starting" /\ MayFail
  /\ pc0' = "joining" /\ joining' = 1 /\ failure' = TRUE
  /\ open' = [w \in Worker |-> FALSE]
  /\ UNCHANGED <<arrived, step, cmd, nextId, sent, localOk, await, pipes, workers, history>>

-----------------------------------------------------------------------------
(* Rank 0: ModelRunner.call.                                               *)

Begin(r, c) == begun' = [begun EXCEPT ![r] = @ \cup {c.id}]
Complete(r, c) == done' = [done EXCEPT ![r] = Append(@, c.id)]

\* The caller gets an exception: the step is given up, what was sent stays sent.
RaiseToCaller ==
  /\ pc0' = IF cmd.method = "exit" THEN "closing" ELSE "idle"
  /\ failure' = (failure \/ cmd.method = "exit")
  /\ step' = <<>>

Step(plan) ==
  /\ pc0 = "idle" /\ step = <<>>
  /\ nextId + Len(StepCommands(plan)) < MaxCommands
  /\ step' = StepCommands(plan)
  /\ UNCHANGED <<arrived, pc0, cmd, nextId, sent, localOk, await, pipes, workers,
                 leaving, history>>

\* LLMEngine.exit, once: _release_model_runner calls "exit".
Exit ==
  /\ pc0 = "idle" /\ step = <<>>
  /\ step' = <<"exit">>
  /\ UNCHANGED <<arrived, pc0, cmd, nextId, sent, localOk, await, pipes, workers,
                 leaving, history>>

\* next_command
Call ==
  /\ pc0 = "idle" /\ step # <<>>
  /\ cmd' = [id |-> nextId, method |-> Head(step)] /\ nextId' = nextId + 1
  /\ step' = Tail(step)
  /\ pc0' = "sending" /\ sent' = 0
  /\ UNCHANGED <<arrived, localOk, await, pipes, workers, leaving, history>>

\* broadcast, one channel after the other; a worker that is gone breaks the pipe.
Send ==
  LET w == sent + 1
  IN  /\ pc0 = "sending"
      /\ IF wpc[w] = "dead"
         THEN RaiseToCaller /\ UNCHANGED <<sent, toWorker, begun, open, joining>>
         ELSE /\ toWorker' = [toWorker EXCEPT ![w] = Append(@, cmd)]
              /\ sent' = w
              /\ IF w = NumWorkers THEN pc0' = "local" /\ Begin(0, cmd)
                 ELSE UNCHANGED <<pc0, begun>>
              /\ UNCHANGED <<step, leaving>>
      /\ UNCHANGED <<arrived, cmd, nextId, localOk, await, toRank0, workers, done, returned>>

\* Rank 0 runs the method too; an exception is kept until the workers have answered.
RunLocal ==
  /\ pc0 = "local"
  /\ \/ CanComplete(cmd) /\ localOk' = TRUE /\ Complete(0, cmd)
     \/ CanRaise /\ localOk' = FALSE /\ UNCHANGED done
  /\ pc0' = "awaiting" /\ pending' = Worker /\ failures' = {}
  /\ UNCHANGED <<arrived, step, cmd, nextId, sent, pipes, workers, leaving, begun, returned>>

\* await_responses rejects a response to another command.
Matches(response) == response.id = cmd.id

Receive(w) ==
  /\ pc0 = "awaiting" /\ w \in pending /\ toRank0[w] # <<>>
  /\ toRank0' = [toRank0 EXCEPT ![w] = Tail(@)]
  /\ IF Matches(Head(toRank0[w]))
     THEN /\ pending' = pending \ {w}
          /\ failures' = IF Head(toRank0[w]).ok THEN failures ELSE failures \cup {w}
          /\ UNCHANGED <<pc0, failure, step>>
     ELSE RaiseToCaller /\ UNCHANGED await
  /\ UNCHANGED <<arrived, cmd, nextId, sent, localOk, toWorker, workers, open, joining, history>>

\* The deadline passes, or a worker has closed its channel.
AwaitFails ==
  /\ pc0 = "awaiting" /\ pending # {} /\ MayFail
  /\ RaiseToCaller
  /\ UNCHANGED <<arrived, cmd, nextId, sent, localOk, await, pipes, workers, open, joining,
                 history>>

AwaitDone ==
  /\ pc0 = "awaiting" /\ pending = {}
  /\ IF failures = {} /\ localOk
     THEN /\ returned' = returned \cup {cmd.id}
          /\ pc0' = IF cmd.method = "exit" THEN "closing" ELSE "idle"
          /\ UNCHANGED <<failure, step>>
     ELSE RaiseToCaller /\ UNCHANGED returned
  /\ UNCHANGED <<arrived, cmd, nextId, sent, localOk, await, pipes, workers, open, joining,
                 begun, done>>

-----------------------------------------------------------------------------
(* LLMEngine.exit after the command: channels, then worker processes.       *)

CloseChannels ==
  /\ pc0 = "closing"
  /\ open' = [w \in Worker |-> FALSE]
  /\ pc0' = "joining" /\ joining' = 1
  /\ UNCHANGED <<arrived, step, cmd, nextId, sent, localOk, await, pipes, workers, failure,
                 history>>

Faulty_ShutdownJoinsOnly(w) ==
  /\ wpc[w] = "dead"
  /\ UNCHANGED wpc

\* _shutdown_worker: join; terminate and kill a process that is still alive, at once
\* after a failure, else when its join has timed out.
ShutdownWorker(w) ==
  \/ wpc[w] = "dead" /\ UNCHANGED wpc
  \/ /\ wpc[w] # "dead"
     /\ failure \/ MayFail
     /\ wpc' = [wpc EXCEPT ![w] = "dead"]

Join ==
  /\ pc0 = "joining"
  /\ ShutdownWorker(joining)
  /\ IF joining = NumWorkers THEN pc0' = "exited" /\ UNCHANGED joining
     ELSE joining' = joining + 1 /\ UNCHANGED pc0
  /\ UNCHANGED <<arrived, step, cmd, nextId, sent, localOk, await, pipes, wcmd, open, failure,
                 history>>

-----------------------------------------------------------------------------
(* A worker: ModelRunner.loop.                                             *)

Read(w) ==
  /\ wpc[w] = "reading" /\ toWorker[w] # <<>>
  /\ toWorker' = [toWorker EXCEPT ![w] = Tail(@)]
  /\ wcmd' = [wcmd EXCEPT ![w] = Head(toWorker[w])]
  /\ wpc' = [wpc EXCEPT ![w] = "running"]
  /\ Begin(w, Head(toWorker[w]))
  /\ UNCHANGED <<arrived, pc0, step, cmd, nextId, sent, localOk, await, toRank0, leaving,
                 done, returned>>

\* read_command finds the channel closed.
ReadEOF(w) ==
  /\ wpc[w] = "reading" /\ toWorker[w] = <<>> /\ ~open[w]
  /\ wpc' = [wpc EXCEPT ![w] = "dead"]
  /\ UNCHANGED <<arrived, pc0, step, cmd, nextId, sent, localOk, await, pipes, wcmd, leaving,
                 history>>

RunCommand(w) ==
  /\ wpc[w] = "running"
  /\ \/ /\ CanComplete(wcmd[w]) /\ Complete(w, wcmd[w])
        /\ wpc' = [wpc EXCEPT ![w] = "replying"]
     \/ /\ CanRaise /\ UNCHANGED done
        /\ wpc' = [wpc EXCEPT ![w] = "raising"]
  /\ UNCHANGED <<arrived, pc0, step, cmd, nextId, sent, localOk, await, pipes, wcmd, leaving,
                 begun, returned>>

Faulty_StaysAfterError(w) == wcmd[w].method # "exit" /\ open[w]

\* The loop ends after an error, after "exit" and when the response cannot be sent.
StaysInLoop(w) == wpc[w] = "replying" /\ wcmd[w].method # "exit" /\ open[w]

\* An ACK or an error, never both, for the command that was run.
Response(w) == [id |-> wcmd[w].id, ok |-> wpc[w] = "replying"]

Reply(w) ==
  /\ wpc[w] \in {"replying", "raising"}
  /\ toRank0' = IF open[w]
                THEN [toRank0 EXCEPT ![w] =
                        Append(@, Response(w))]
                ELSE toRank0
  /\ wpc' = [wpc EXCEPT ![w] = IF StaysInLoop(w) THEN "reading" ELSE "closing"]
  /\ UNCHANGED <<arrived, pc0, step, cmd, nextId, sent, localOk, await, toWorker, wcmd,
                 leaving, history>>

\* close_worker_channel, and the end of the process: what rank 0 sends until then is
\* never read.
CloseChannel(w) ==
  /\ wpc[w] = "closing"
  /\ wpc' = [wpc EXCEPT ![w] = "dead"]
  /\ UNCHANGED <<arrived, pc0, step, cmd, nextId, sent, localOk, await, pipes, wcmd, leaving,
                 history>>

Die(w) ==
  /\ MayFail /\ wpc[w] # "dead"
  /\ wpc' = [wpc EXCEPT ![w] = "dead"]
  /\ UNCHANGED <<arrived, pc0, step, cmd, nextId, sent, localOk, await, pipes, wcmd, leaving,
                 history>>

\* After the exit nothing is left to do.
Exited == pc0 = "exited" /\ UNCHANGED vars

-----------------------------------------------------------------------------

Rank0Runs ==
  \/ Arrive(0) \/ StartupDone
  \/ Call \/ Send \/ RunLocal \/ AwaitDone \/ AwaitFails \/ \E w \in Worker : Receive(w)
  \/ CloseChannels \/ Join

WorkerRuns(w) ==
  \/ Arrive(w) \/ EnterLoop(w)
  \/ Read(w) \/ ReadEOF(w) \/ RunCommand(w) \/ Reply(w) \/ CloseChannel(w)

Next ==
  \/ Rank0Runs
  \/ StartupFails
  \/ \E plan \in Plans : Step(plan)
  \/ Exit
  \/ \E w \in Worker : WorkerRuns(w) \/ Die(w)
  \/ Exited

Spec == Init /\ [][Next]_vars

\* Rank 0's own steps happen.  The workers promise nothing, they may hang for ever:
\* every wait of rank 0 has a deadline.
FairSpec == Spec /\ WF_vars(Rank0Runs)

-----------------------------------------------------------------------------
(* Properties.                                                             *)

Completed(r) == ToSet(done[r])

\* When a call returns normally (ModelRunner.call), every worker has completed every
\* command that rank 0 has: no answer to an earlier command, and no worker that once
\* failed, lets rank 0 run ahead.
WorkersCaughtUp ==
  \A i \in returned, w \in Worker :
    {j \in Completed(0) : j <= i} \subseteq Completed(w)

\* LLMEngine.exit ends, with no worker process left, whatever the workers do.
ExitEnds == step = <<"exit">> ~> pc0 = "exited" /\ \A w \in Worker : wpc[w] = "dead"

TypeOK ==
  /\ arrived \subseteq Rank /\ cmd.id < nextId /\ sent \in 0 .. NumWorkers
  /\ pc0 \in {"starting", "idle", "sending", "local", "awaiting", "closing", "joining", "exited"}
  /\ wpc \in [Worker -> {"starting", "reading", "running", "replying", "raising", "closing", "dead"}]
  /\ pending \subseteq Worker /\ failures \subseteq Worker \ pending
  /\ \A w \in Worker : /\ \A i \in DOMAIN toWorker[w] : toWorker[w][i].id < nextId
                       /\ Completed(w) \subseteq begun[w]
  /\ open \in [Worker -> BOOLEAN] /\ returned \subseteq Completed(0)
=============================================================================
