SPECIFICATION FairSpec
CONSTANTS
    p = p
    q = q
    h = h
    Callers = {p, q, h}
    Requests = {p, q}
    WithPfc = {p}
    Traces = {"t1", "t2"}
    Keys = {"t1:context", "t2:context"}
    TraceOf <- MCTraceOf
    KeyOf <- MCKeyOf
INVARIANTS
    TypeOK
    LockConsistent
    NothingLeftBehind
    HintIsTimely
    ContextReachesGenerator
    FailuresFallBack
PROPERTIES
    ImplementsSupervision
    RequestsEnd
    WaitersGetThrough
CHECK_DEADLOCK FALSE
