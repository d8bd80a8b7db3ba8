CONSTANTS
    t1 = t1  t2 = t2  easy = easy  hard = hard  coding = coding
    None = None
    WMin = 1000  Seed = 3000  DemoteBelow = 4000  PromoteAt = 7000  WMax = 10000
    DecayRate = 100
    Tasks <- MCTasks
    Cells <- MCCells
    Keys <- MCKeys
    KeyOf <- MCKeyOf
    StartWeights <- MCStartWeights
    Similarities <- MCSimilarities
    Window = 2
    MaxRuns = 3
SPECIFICATION Spec
SYMMETRY Symmetry
INVARIANTS
    TypeOK
    LearnsExactlyFromSuccess
    EarnsItsBand
    CounterCountsRaises
