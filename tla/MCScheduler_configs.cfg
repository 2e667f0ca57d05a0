SPECIFICATION FairSpec
CONSTANTS
  Requests = {1, 2, 3, 4, 5}
  Tokens = {1, 2}
  Eos = 2
  Prompt <- PromptSet
  MaxTokens <- TokenBudget
  BlockSize = 2
  NumBlocks = 4
  Configs <- AllConfigs
  MaxModelLen = 8
  MaxChunkSize = 2
  MaxConsecutive = 1
  PrefillQuanta = 2
INVARIANTS TypeOK NoFault PageCountsExact CpuPagesOwnedOnce QueuesMatchStatus RowsCorrect NothingLeaks RunningBounded PausedPrefillIntact
PROPERTIES OldestKeepsRunning DecodeTurnsKept ImplementsLifecycle
