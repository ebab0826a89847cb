\* One request at a time, no failing call: a form whose second file is refused.
SPECIFICATION Spec
CONSTANTS
    MaxCatalogs = 2
    MaxKeys = 3
    Requests = {r1}
    Uploads <- MCUploads
    Unfit <- MCUnfit
    Orders = {1, 2}
    Sources = {s1}
    Name <- MCName
    Batches <- MCBatches
    Folders <- MCFolders
    Faults = {}
    f1 = f1
    f2 = f2
    f3 = f3
    s1 = s1
INVARIANTS
    NoOrphans
\* The catalogs and keys are bounded: every handler may be out of keys.
CHECK_DEADLOCK FALSE
