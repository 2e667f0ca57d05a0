SPECIFICATION Spec
CONSTANTS
  Requests = {1, 2}
  Tokens = {1, 2}
  Eos = 2
  Prompt <- PromptSet
  MaxTokens <- LongBudget
  BlockSize = 2
  NumBlocks = 4
  Configs <- RecomputeCached
  MaxModelLen = 8
  MaxChunkSize = 2
  MaxConsecutive = 1
  PrefillQuanta = 2
INVARIANTS PublishedPagesComputed
