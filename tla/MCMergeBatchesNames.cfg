\* An upload of four files, the last one named merge-part-r1-b0.pdf.
SPECIFICATION MergeSpec
CONSTANTS
    BatchSize = 3
    Converted <- NoFiles
    Named <- MCNamed
    Jobs <- ClashJobs
    MaxLength = 2
    MaxTied = 2
    Files = {1}
    Extracted <- OneFile
    Unsupported = {}
    Unnumbered = {}
    Folded <- OneFile
    Limit = 1
    MaxOrder = 1
INVARIANTS
    MergedInOrder
