\* One request at a time, failing calls.
SPECIFICATION Spec
CONSTANTS
    MaxCatalogs = 1
    MaxKeys = 2
    Requests = {r1}
    Uploads <- MCUploads
    Unfit <- MCUnfit
    Orders = {1, 2}
    Sources = {s1}
    Name <- MCName
    Batches <- Empty
    Folders <- NoFolders
    Faults = {"lost"}
    f1 = f1
    f2 = f2
    f3 = f3
    s1 = s1
INVARIANTS
    SkipIsHonest
\* The catalogs and keys are bounded: every handler may be out of keys.
CHECK_DEADLOCK FALSE
