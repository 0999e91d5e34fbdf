SPECIFICATION Spec
CONSTANTS
    a = a
    b = b
    e = e
    OverlapRatio = 3
    NumLayers = 2
    Ratio <- MCRatio
    Win = 2
    PrefillCap = 6
    Ctx = 11
    RawAlign = 1
    RawMax = 12
    Conversations <- MCConversations
    Greedy <- MCGreedy
    Token <- MCToken
    Eos = e
    Proposals <- MCProposals
    ResumeMin = 3
    MaxDrafts <- MCMaxDrafts
    Strict <- MCStrict
    NearTies <- MCNearTies
    SyncLengths <- MCSyncLengths
    SavedLengths <- MCSavedLengths
    MaxTroubles = 2
    Prompts <- MCPrompts
    Budgets <- MCBudgets
INVARIANTS
    TypeOK
    SessionExact
    AttentionExact
    SpeculationExact
    PayloadExact
PROPERTIES
    ImplementsGreedyStream
    CallEnds
