SPECIFICATION FairSpec
CONSTANTS
  Requests <- Ids
  Configs <- Mixed
  Cooperative = TRUE
  PromptLen <- Lengths
  Patches <- PatchCounts
  Slo <- Deadlines
  MaxNew = 4
  MaxBatchedTokens = 4
  MaxVisionPatches = 2
  BlockSize = 2
  Heavy = 2
  MinDecode = 3
  MaxConsecutive = 1
  Reserve <- Reserves
  CoalesceMin = 2
  CoalesceWait = 2
  SparseQuantum = 2
  PrefillWork = 3
  MaxClock = 3
INVARIANT BypassBounded
PROPERTY EveryRequestEnds
CHECK_DEADLOCK FALSE
