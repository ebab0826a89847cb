\* A folder with 2-B.pdf and 2-a.pdf.
SPECIFICATION MergeSpec
CONSTANTS
    BatchSize = 3
    Converted <- NoFiles
    Named <- NoFiles
    Jobs <- NoJobs
    MaxLength = 2
    MaxTied = 2
    Files = {1, 2}
    Extracted <- CaseExtracted
    Unsupported = {}
    Unnumbered = {}
    Folded <- CaseFolded
    Limit = 2
    MaxOrder = 2
INVARIANTS
    MergedAsShown
