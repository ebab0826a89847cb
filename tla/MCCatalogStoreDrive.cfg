\* Two catalogs of one Drive folder, one request at a time, no failing call.
SPECIFICATION Spec
CONSTANTS
    MaxCatalogs = 2
    MaxKeys = 1
    Requests = {r1}
    Uploads <- MCUploads
    Unfit <- MCUnfit
    Orders = {1, 2}
    Sources = {s1}
    Name <- MCName
    Batches <- MCBatches
    Folders <- MCFolders
    Faults = {}
    f1 = f1
    f2 = f2
    f3 = f3
    s1 = s1
INVARIANTS
    DrivePagesBacked
\* The catalogs and keys are bounded: every handler may be out of keys.
CHECK_DEADLOCK FALSE
