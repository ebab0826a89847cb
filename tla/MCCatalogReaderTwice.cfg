\* A page that one chunk has twice.
SPECIFICATION Spec
CONSTANTS
    b1 = b1
    b2 = b2
    Books = {b1, b2}
    NoBook = NoBook
    Kept = {b1}
    Lists <- MCLists
    ChunkSize = 2
    Columns = 2
    Opens = {o1}
    Loads = {l1, l2}
    Faults = {}
INVARIANTS
    NoCallDoubles
CHECK_DEADLOCK FALSE
