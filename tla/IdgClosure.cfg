SPECIFICATION Spec
CONSTANTS
    Jobs <- MCJobs
    Asked <- MCAsked
    Readers = {r1, r2}
    MaxResident = 2
    MaxFrontier = 2
    RunIndexStride = 2
    Associativity = 2
    SetCount = 2
    BloomBits = 24
    BloomHashCount = 2
    PrefixUnit = 4096
    Radix = 16
    InterBit = 8
    ReplayBatch = 2
    FlowRounds = 24
    StackDepth = 3
INVARIANTS
    ClosureIsLeastFixpoint
    RealizableFlowFound
    RelevanceKeepsTargets
    SummariesExact
    SpillStoresExact
    PromotionKeepsCacheExact
PROPERTY
    QueryEnds
