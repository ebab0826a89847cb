SPECIFICATION Spec
CONSTANTS
    N = 2
    MaxAttempts = 1
    Workers <- MCWorkers
    Paths <- MCPaths2
    LocalPath <- MCLocalPath2
    MergePath <- MCMergePath2
    p1 = p1
    p2 = p2
    p3 = p3
    q3 = q3
    w1 = w1
    w2 = w2
INVARIANTS
    SourcesNotPersisted
