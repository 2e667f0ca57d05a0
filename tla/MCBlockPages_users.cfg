SPECIFICATION EitherSpec
CONSTANTS
  NumBlocks = 3
  h1 = h1
  h2 = h2
  c1 = c1
  c2 = c2
  o1 = o1
  o2 = o2
  Hashes = {h1, h2}
  NO_BLOCK_HASH = NO_BLOCK_HASH
  Contents = {c1, c2}
  NoContent = NoContent
  Owners = {o1, o2}
  PageSize = 2
  PagePool = 6
  MaxTokens = 3
SYMMETRY MCSymmetry
INVARIANTS TypeOK Partition RefCountsExact IndexSound FreeCountHonest QueueBounded
INVARIANTS RowsIntact CountsExact
PROPERTY EvictsOldestFirst
