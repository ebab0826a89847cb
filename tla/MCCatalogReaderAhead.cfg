\* A page that two chunks have.
SPECIFICATION Spec
CONSTANTS
    b1 = b1
    b2 = b2
    Books = {b2}
    NoBook = NoBook
    Kept = {}
    Lists <- MCGrowing
    ChunkSize = 1
    Columns = 2
    Opens = {o1}
    Loads = {l1, l2}
    Faults = {}
INVARIANTS
    MarksComplete
CHECK_DEADLOCK FALSE
