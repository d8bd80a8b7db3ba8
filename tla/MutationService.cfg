CONSTANTS
    c1 = c1
    c2 = c2
    c3 = c3
    t1 = t1
    t2 = t2
    s1 = s1
    s2 = s2
    hard = hard
    None = None
    WMin = 10
    Seed = 30
    DemoteBelow = 40
    PromoteAt = 70
    WMax = 100
    DecayRate = 1
    Calls <- ThreeCalls
    Traces <- MCTraces
    Sessions <- MCSessions
    Keys <- MCKeys
    TraceOf <- MCTraceOf
    SessionOf <- MCSessionOf
    KeyOf <- MCKeyOf
    Deltas <- MCDeltas
    StartPresets <- NothingLearned
    MaxFaults = 1
    MaxRestarts = 1
    MaxErosions = 0
SPECIFICATION Spec
SYMMETRY SameTrace
INVARIANTS
    TypeOK
    LockConsistent
    SingleApply
    RowAgreesWhenSettled
    ConfirmedIsKept
    TentativeIsTracked
PROPERTY ImplementsLedger
CHECK_DEADLOCK FALSE
