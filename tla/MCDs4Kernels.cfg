SPECIFICATION Spec
CONSTANTS
    NumLayers = 3
    Ratio <- MCRatio
    OverlapRatio = 2
    Win = 2
    TopK = 1
    NumTokens = 8
    FfnBatch = 3
    NumWorkers = 2
    RawCap = 6
    MoeTokens = 2
    ExpertsUsed = 2
    RoutedExpert = 3
    MidRows = 2
    OutRows = 2
    Vocab = 3
    Scale = 4
    Draws = 4
    MaxTopK = 2
    NumHotLayers = 2
    NExpert = 3
    KHot = 3
    Picks = 2
    Gpus <- MCGpus
    Passes <- MCPasses
    Requests <- MCRequests
    Products <- MCProducts
    Profiles <- MCProfiles
    RowBlocks = {2, 3}
    GroupSize = 2
    Groups = 1
    SubBlocks = 2
    LogicGrid <- MCGrid
    FitScales <- MCFits
INVARIANTS
    LayersExact
    RoutedOnce
    SampledFromNucleus
    TilesOnce
    HotColdOnce
    DotsExact
    PackedExact
