SPECIFICATION HalfSpec
CONSTANTS
    s1 = s1
    s2 = s2
    Seqs = {s1, s2}
    VisionSeqs = {s1, s2}
    BlockSize = 2
    NumPages = 4
    Prompts = {2, 3}
    MaxModelLen = 4
    ExactLimit = 1
    BucketStride = 3
    MaxMoves = 1
    Configs <- RunnerConfigs
    VisionPrompts <- Albums
    MergeSize = 2
    L1MaxRows = 3
    HostMaxRows = 5
    MinGraphPatches = 5
    MaxGraphShapes = 2
    NumBlocks = 2
    DeepstackIndexes <- VisionTaps
    NumLayers = 2
    MaxPreempts = 1
    MaxNew = 2
    Settings <- VisionSettings
SYMMETRY Symmetry
INVARIANT WorkersGetMedia
CHECK_DEADLOCK FALSE
