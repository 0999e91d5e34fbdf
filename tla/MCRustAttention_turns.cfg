CONSTANTS
    NumLayers = 4
    Ratio <- MCRatio
    OverlapRatio = 2
    GroupKernels = {3}
    Win = 4
    TopK = 2
    MaxSeqLen = 8
    MinPrompt = 2
    MaxConversations = 2
SPECIFICATION Spec
INVARIANTS
    TurnsContinue
CHECK_DEADLOCK FALSE
