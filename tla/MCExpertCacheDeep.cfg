CONSTANTS
    Layers <- MCLayers
    Experts <- MCExperts
    Warmups <- MCWarmups
    NLayers = 3
    TopK = 1
    MaxActivated = 1
    RustRunner = FALSE
    BatchTop = 1
    Workers = {w1, w2}
    MaxSteps = 2
    ProtectedCapacity = 5
    ProbationCapacity = 1
    w1 = w1
    w2 = w2
SPECIFICATION DecodeSpec
CHECK_DEADLOCK FALSE
INVARIANT NoRedundantTransfer
PROPERTIES StepProtected PromotedOnAccess PrefetchCompletes
