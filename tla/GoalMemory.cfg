CONSTANTS
    g1 = g1  g2 = g2  g3 = g3  m1 = m1  m2 = m2
    None = None
    Goals <- MCGoals
    PriorityOf <- MCPriorityOf
    Covered <- MCCovered
    MaxDepth = 2
    Recency <- MCRecency
    MaxAge = 3
    BaseTtl <- MCBaseTtl
    TtlMin = 1
    TtlMax = 2
    Mutations <- MCMutations
    LearnedTypes <- MCLearnedTypes
    Deltas <- MCDeltas
SPECIFICATION Spec
SYMMETRY Symmetry
INVARIANTS
    TypeOK
    RollbacksRestoreTtl
PROPERTIES
    FocusIsSticky
    CleanupSettles
