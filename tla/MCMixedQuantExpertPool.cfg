CONSTANTS
    t1 = t1
    t2 = t2
    up = up
    Experts <- MCExperts
    Tokens <- MCOneToken
    Threads <- MCThreads
    NLayers = 2
    Capacity = 1
    PrefetchCount = 1
    PrefetchLayers = 2
    Frequencies <- MCFrequencies
    Slack = 1
    Uploader = up
    MaxForwards = 1
SPECIFICATION Spec
SYMMETRY ThreadSymmetry
CHECK_DEADLOCK FALSE
INVARIANTS TypeOK OutputComplete WithinCapacity AnnouncedExactly
