\* The pages of a book behind the chunk of an earlier one.
SPECIFICATION FairSpec
CONSTANTS
    b1 = b1
    b2 = b2
    Books = {b1, b2}
    NoBook = NoBook
    Kept = {b1}
    Lists <- MCLists
    ChunkSize = 2
    Columns = 2
    Opens = {o1}
    Loads = {l1, l2}
    Faults = {}
PROPERTIES
    SpreadAlwaysLoads
CHECK_DEADLOCK FALSE
