\* An upload of scan.png and scan.jpg.
SPECIFICATION MergeSpec
CONSTANTS
    BatchSize = 3
    Converted <- ScanConverted
    Named <- NoFiles
    Jobs <- ScanJobs
    MaxLength = 2
    MaxTied = 2
    Files = {1}
    Extracted <- OneFile
    Unsupported = {}
    Unnumbered = {}
    Folded <- OneFile
    Limit = 1
    MaxOrder = 1
INVARIANTS
    MergedInOrder
