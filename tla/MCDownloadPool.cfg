\* Three files, two workers, two attempts: safety, refinement and liveness.
SPECIFICATION FairSpec
CONSTANTS
    N = 3
    MaxAttempts = 2
    Workers <- MCWorkers
    Paths <- MCPaths
    LocalPath <- MCLocalPath
    MergePath <- MCMergePath
    p1 = p1
    p2 = p2
    p3 = p3
    q3 = q3
    w1 = w1
    w2 = w2
INVARIANTS
    TypeOK
    NilMeansComplete
    RootCauseReported
    SlotHasOneWriter
    LinkBacked
    OwnContent
PROPERTIES
    ImplementsContract
    CancelDrains
    ReturnsUnlessHung
