CONSTANTS
    Layers <- MCLayers
    Experts <- MCExperts
    Warmups <- MCWarmups
    StepSets <- MCStepSets
    NLayers = 2
    TopK = 1
    MaxActivated = 2
    RustRunner = TRUE
    BatchTop = 1
    Workers = {w1, w2}
    MaxSteps = 2
    ProtectedCapacity = 3
    ProbationCapacity = 1
    w1 = w1
    w2 = w2
SPECIFICATION CacheSpec
CHECK_DEADLOCK FALSE
PROPERTY BatchSubmitsOnce
