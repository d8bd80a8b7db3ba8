CONSTANTS
    r1 = r1
    p1 = p1
    p2 = p2
    p3 = p3
    None = None
    NoGoal = NoGoal
    WMin = 10
    Seed = 30
    DemoteBelow = 40
    PromoteAt = 70
    WMax = 100
    DecayRate = 1
    Requests <- MCRequests
    Prompts <- MCPrompts
    RateMax = 2
    LoopThreshold = 2
    Categories <- MCCategories
    Difficulties <- MCDifficulties
    Evaluations <- MCEvaluations
    Goals <- MCGoals
    Matches <- MCMatches
    Weights <- MCWeights
    Retrievals <- MCRetrievals
    Moving <- MCMoving
    MaxRequests = 2
    MaxChanges = 1
SPECIFICATION FairSpec
CHECK_DEADLOCK FALSE
INVARIANTS
    TypeOK
    FloorIsEarned
    RunsWithinReach
    HardRunsFull
    LabelsFitTheRun
PROPERTY RequestsAnswered
