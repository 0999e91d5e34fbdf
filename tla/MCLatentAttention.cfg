CONSTANTS
    NumLayers = 3
    Ratio <- MCRatio
    OverlapRatio = 3
    Win = 4
    TopK = 2
    MaxSeqLen = 12
    WarmupLen = 2
    MinPrompt = 3
    MaxSequences = 3
SPECIFICATION Spec
INVARIANTS
    TypeOK
    ContextExact
    DecodeMatchesPrefill
CHECK_DEADLOCK FALSE
