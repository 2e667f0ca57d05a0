---------------------------- MODULE MCBlockPages ----------------------------
(* The GPU block pool under its two kinds of user.  A behaviour of this model runs one *)
(* of them, the other stays put:                                                       *)
(*   - "owners": any two owners call the operations of GpuBlockPool as they please, on *)
(*     three blocks, with two hashes that may collide and two contents;                *)
(*   - "entries": PrefixEntries, where sequences, prefix entries and tail clones share *)
(*     the pages of a pool of its own.                                                 *)
EXTENDS GpuBlockPool, TLC

CONSTANTS h1, h2, c1, c2, o1, o2

MCSymmetry ==
  Permutations(Hashes) \cup Permutations(Contents) \cup Permutations(Owners)

-----------------------------------------------------------------------------
(* Prompts of which two share an image and a prefix that ends inside a page, and one *)
(* has another image.  Their last pages differ, so hits, copies and evictions mix.   *)

TokenSet == {1, 2, 11, 12}
Images == {11, 12}
Ids == {"d1", "d2", "d3", "d4", "c1", "c2", "c3"}

PromptSet == [d1 |-> <<1, 11, 11, 1>>, d2 |-> <<1, 11, 11, 2>>, d3 |-> <<1, 12, 2>>,
              d4 |-> <<1, 11, 11, 2, 1>>,
              c1 |-> <<11, 11, 1>>, c2 |-> <<11, 11, 2, 1>>, c3 |-> <<1, 12, 12, 2>>]

\* Dense media pages that also join the hash index.
BlockLevel ==
  [clients |-> {"d1", "d2", "d3", "d4"}, cpuBlocks |-> 0, caching |-> TRUE, retain |-> TRUE,
   chunked |-> FALSE]

\* Media rows squeezed out after the media, with chunked prefill.
Compacting ==
  [clients |-> {"c1", "c2", "c3"}, cpuBlocks |-> 0, caching |-> TRUE, retain |-> FALSE,
   chunked |-> TRUE]

CONSTANTS PageSize, PagePool, MaxTokens

VARIABLES half, config, pages, cpuFree, seqs, cache, resident, kv, plan, copies, fault

entriesVars == <<config, pages, cpuFree, seqs, cache, resident, kv, plan, copies, fault>>

Entries == INSTANCE PrefixEntries
             WITH Requests <- Ids, Tokens <- TokenSet, Media <- Images, Prompt <- PromptSet,
                  BlockSize <- PageSize, NumBlocks <- PagePool,
                  Configs <- {BlockLevel, Compacting}, pool <- pages

ASSUME MCEntriesAssumption == Entries!EntriesAssumption

-----------------------------------------------------------------------------
EitherInit ==
  /\ half \in {"owners", "entries"}
  /\ Init /\ Entries!Init
  /\ half = "owners" => config = BlockLevel
  /\ half = "entries" => pool = EmptyPool(FALSE)

EitherNext ==
  \/ half = "owners" /\ Next /\ UNCHANGED <<half, entriesVars>>
  \/ half = "entries" /\ Entries!Next /\ UNCHANGED <<half, vars>>

EitherSpec == EitherInit /\ [][EitherNext]_<<half, vars, entriesVars>>

-----------------------------------------------------------------------------
\* Between two steps every row that a running request, a cached entry, an idle tail clone
\* or the hash index offers is the right one: hits, evictions that make room for them,
\* page copies, compaction and cut-back prefixes never leave stale or foreign rows behind
\* (block_manager.py, kv_compaction_coordinator.py).
RowsIntact == Entries!RowsIntact

\* Each page counts the tables, entries and clones that name it, the cache's page counter
\* is the sum over its entries and within its capacity, and no operation raises for want
\* of the pages its admission test promised (block_manager.py).
CountsExact == Entries!CountsExact
=============================================================================
