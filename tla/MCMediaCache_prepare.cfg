SPECIFICATION Spec
CONSTANTS
    Requests = {"r1", "r2", "r3", "r4", "r5", "r6"}
    Req <- MixedReq
    Media = {"m1", "m2"}
    Opaque = {"m2"}
    Contents = {"c1", "c2"}
    Size <- MCSize
    Tokenize <- MergeTokenize
    MaxEntries = 2
CONSTRAINT OneGroup
INVARIANT ResultsExact
CHECK_DEADLOCK FALSE
