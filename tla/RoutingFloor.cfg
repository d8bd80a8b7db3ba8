CONSTANTS
    s1 = s1
    s2 = s2
    coding = coding
    m1 = m1
    m2 = m2
    m3 = m3
    None = None
    WMin = 10
    Seed = 30
    DemoteBelow = 40
    PromoteAt = 70
    WMax = 100
    DecayRate = 35
    Sessions <- MCSessions
    Categories <- MCCategories
    Difficulties <- MCDifficulties
    MaxSessions = 1
    Mutations <- MCMutations
    Deltas <- MCDeltas
    StartPresets <- MCStartPresets
    MaxRequests = 4
SPECIFICATION Spec
SYMMETRY Symmetry
INVARIANTS
    TypeOK
    LrusAgree
PROPERTIES
    FallsOnlyByForgetting
    ImplementsSessionFloors
