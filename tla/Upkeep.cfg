CONSTANTS
    p1 = p1  p2 = p2  s1 = s1  m1 = m1  r1 = r1  r2 = r2
    None = None  UNRESOLVED = UNRESOLVED
    Prompts <- MCPrompts
    Similarity <- MCSimilarity
    Slots = {s1}
    Models = {m1}
    Written <- MCWritten
    Records <- MCRecords
    MaxAge = 1
    BatchLimit = 1
    Enabled = TRUE
    MaxClock = 3
    MaxPuts = 1
    MaxRowFaults = 1
    MaxRestarts = 1
SPECIFICATION Spec
INVARIANTS
    AnswersStayInTheirNamespace
PROPERTIES
    RowsGoOldestFirst
    AgedRowsGo
