\* Two jobs, two concurrent handlers, one restart.
SPECIFICATION FairSpec
CONSTANTS
    MaxJobs = 2
    Requests = {r1, r2}
    MaxRestarts = 1
    Faults = {"lost", "hang"}
INVARIANTS
    TypeOK
    CompletedHasOutput
    DownloadMissesOnlyDeleted
    ScrubBeforeUnlink
PROPERTIES
    StageNeverGoesBack
    ImplementsContract
    Settles
\* The jobs are bounded and may all be over.
CHECK_DEADLOCK FALSE
