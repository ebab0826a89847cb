\* A page that two chunks have, and a call that fails.
SPECIFICATION FairSpec
CONSTANTS
    b1 = b1
    b2 = b2
    Books = {b2}
    NoBook = NoBook
    Kept = {}
    Lists <- MCGrowing
    ChunkSize = 1
    Columns = 1
    Opens = {o1}
    Loads = {l1, l2}
    Faults = {"lost"}
PROPERTIES
    SpreadFullyLoads
CHECK_DEADLOCK FALSE
