SPECIFICATION Spec
CONSTANTS
  s1 = s1
  s2 = s2
  s3 = s3
  Nobody = Nobody
  Submissions <- ThreeCalls
  Id <- SharedId
  Media <- MediaCalls
  Capacity = 2
  MaxCancels = 1
  MaxOutput = 1
CHECK_DEADLOCK FALSE
INVARIANT NoneStranded
