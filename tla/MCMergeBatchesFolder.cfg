\* A folder of more files than one answer of files.list has.
SPECIFICATION MergeSpec
CONSTANTS
    BatchSize = 3
    Converted <- NoFiles
    Named <- NoFiles
    Jobs <- NoJobs
    MaxLength = 2
    MaxTied = 2
    Files <- MCFiles
    Extracted <- MCExtracted
    Unsupported = {5}
    Unnumbered = {6}
    Folded <- MCFolded
    Limit = 2
    MaxOrder = 2
PROPERTIES
    PreviewComplete
