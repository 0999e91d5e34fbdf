CONSTANTS
    t1 = t1
    t2 = t2
    up = up
    Experts <- MCExperts
    Tokens <- MCTwoTokens
    Threads <- MCThreads
    NLayers = 1
    Capacity = 1
    PrefetchCount = 1
    PrefetchLayers = 2
    Frequencies <- MCHalfSeen
    Slack = 1
    Uploader = up
    MaxForwards = 1
SPECIFICATION Spec
CHECK_DEADLOCK FALSE
PROPERTY LayerEnds
