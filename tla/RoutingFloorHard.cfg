CONSTANTS
    s1 = s1
    s2 = s2
    coding = coding
    m1 = m1
    m2 = m2
    m3 = m3
    None = None
    WMin = 10
    Seed = 30
    DemoteBelow = 40
    PromoteAt = 70
    WMax = 100
    DecayRate = 1
    Sessions <- MCSessions
    Categories <- MCCategories
    Difficulties <- OnlyHard
    MaxSessions = 2
    Mutations <- OneMutation
    Deltas <- MCDeltas
    StartPresets <- NothingLearned
    MaxRequests = 3
SPECIFICATION Spec
INVARIANT HighDifficultyProtected
