\* No write fails, but two workers write in the other order.
SPECIFICATION Spec
CONSTANTS
    N = 2
    Workers = {w1, w2}
    MaxAttempts = 2
    Length <- MCLength
    Sizes <- MCSizes
    NoWrite = NoWrite
    Faults = {}
INVARIANTS
    RowCatchesUp
