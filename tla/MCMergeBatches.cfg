\* Uploads of up to 28 inputs: three rounds and the output.  Every list of up to 4 inputs
\* of two orders.  Every folder of six files, one of another type, one without a number.
\* Files named like parts of other rounds, or like the output.
SPECIFICATION MergeSpec
CONSTANTS
    BatchSize = 3
    Converted <- MCConverted
    Named <- MCNamed
    Jobs <- MCJobs
    MaxLength = 28
    MaxTied = 4
    Files <- MCFiles
    Extracted <- MCExtracted
    Unsupported = {5}
    Unnumbered = {6}
    Folded <- MCFolded
    Limit = 6
    MaxOrder = 3
INVARIANTS
    MergedInOrder
    SourcesKept
    MergedAsShown
PROPERTIES
    Ends
