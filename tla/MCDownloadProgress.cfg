\* Two files, two workers, a restore and two Drive attempts.
SPECIFICATION Spec
CONSTANTS
    N = 2
    Workers = {w1, w2}
    MaxAttempts = 2
    Length <- MCLength
    Sizes <- MCSizes
    NoWrite = NoWrite
    Faults = {"lost"}
INVARIANTS
    ShownDownloadedIsTrue
    PercentFits
    NilShowsAll
