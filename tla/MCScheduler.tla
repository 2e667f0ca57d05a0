----------------------------- MODULE MCScheduler -----------------------------
(* Instances of Scheduler for TLC.                                         *)
EXTENDS Scheduler

\* Prompts over two tokens with pages of two: all but 5 share the first page, 3 is
\* page aligned, and what 2 generates completes the pages of 3.
PromptSet ==
  [r \in Requests |-> CASE r = 1 -> <<1, 1, 2>>
                        [] r = 2 -> <<1, 1, 1>>
                        [] r = 3 -> <<1, 1, 1, 1>>
                        [] r = 4 -> <<1, 1, 1, 2, 1>>
                        [] r = 5 -> <<2>>]

TokenBudget == [r \in Requests |-> 3]

\* Room for several tokens after a preemption.
LongBudget == [r \in Requests |-> 5]

\* Swapping to the CPU, with chunked prefill and prefix caching.
Swap ==
  [clients |-> {1, 2, 3, 4}, samples |-> {1}, cpuBlocks |-> 4, caching |-> TRUE, retain |-> TRUE,
   queue |-> 4, seqs |-> 3, batched |-> 4, chunked |-> TRUE, cooperative |-> FALSE]

\* Prefills that pause at layer boundaries.
Pausing ==
  [clients |-> {1, 2, 3, 5}, samples |-> {1}, cpuBlocks |-> 6, caching |-> TRUE, retain |-> TRUE,
   queue |-> 4, seqs |-> 3, batched |-> 6, chunked |-> FALSE, cooperative |-> TRUE]

\* No CPU pages: victims are recomputed; a short queue and a sampler that may stop.
Recompute ==
  [clients |-> {1, 2, 3}, samples |-> {1, 2}, cpuBlocks |-> 0, caching |-> FALSE, retain |-> TRUE,
   queue |-> 2, seqs |-> 3, batched |-> 4, chunked |-> TRUE, cooperative |-> FALSE]

\* Room for more residents than max_num_seqs allows.
Narrow == [Pausing EXCEPT !.clients = {1, 2, 5}, !.seqs = 2]

AllConfigs == {Swap, Pausing, Recompute, Narrow}

\* Recomputation with prefix caching.
RecomputeCached == {[Recompute EXCEPT !.caching = TRUE, !.retain = FALSE, !.clients = {1, 2}, !.queue = 4]}
=============================================================================
