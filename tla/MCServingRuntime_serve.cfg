SPECIFICATION FairSpec
CONSTANTS
  s1 = s1
  s2 = s2
  s3 = s3
  Nobody = Nobody
  Submissions <- ThreeCalls
  Id <- SharedId
  Media <- MediaCalls
  Capacity = 2
  MaxCancels = 2
  MaxOutput = 1
CHECK_DEADLOCK FALSE
INVARIANTS TypeOK SlotsExact IdsExact TerminalIsLast EngineUseSafe CleanShutdown
PROPERTY AllAnswered
