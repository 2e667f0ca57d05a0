SPECIFICATION FairSpec
CONSTANTS
  NumWorkers = 2
  Plans <- DecodePlans
  MaxCommands = 3
  MayFail = TRUE
INVARIANT WorkersCaughtUp
PROPERTY ExitEnds
