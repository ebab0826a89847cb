\* One job and one restart, no other fault.
SPECIFICATION FairSpec
CONSTANTS
    MaxJobs = 1
    Requests = {r1}
    MaxRestarts = 1
    Faults = {}
PROPERTIES
    NobodyWaitsForEver
CHECK_DEADLOCK FALSE
