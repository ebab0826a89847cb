\* One catalog, two handlers at a time, failing calls: safety, and coherence in the end.
SPECIFICATION FairSpec
CONSTANTS
    MaxCatalogs = 1
    MaxKeys = 2
    Requests = {r1, r2}
    Uploads <- MCUploads
    Unfit <- MCUnfit
    Orders = {1}
    Sources = {s1}
    Name <- MCName
    Batches <- Empty
    Folders <- MCFolders
    Faults = {"lost"}
    f1 = f1
    f2 = f2
    f3 = f3
    s1 = s1
INVARIANTS
    DetailOnlyLags
    NoPageOutlivesCatalog
    UploadedPagesBacked
    ScrubBeforeUnlink
PROPERTIES
    EventuallyCoherent
\* The catalogs and keys are bounded: every handler may be out of keys.
CHECK_DEADLOCK FALSE
