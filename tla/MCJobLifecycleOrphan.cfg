\* One job and one delete, no fault and no restart.
SPECIFICATION Spec
CONSTANTS
    MaxJobs = 1
    Requests = {r1}
    MaxRestarts = 0
    Faults = {}
INVARIANTS
    DeleteRemovesOutput
CHECK_DEADLOCK FALSE
