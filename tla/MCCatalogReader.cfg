\* Two catalogs, a detail and two chunks on the wire, failing calls.
\* Both catalogs may be deleted, which leaves the page nothing to do.
SPECIFICATION FairSpec
CONSTANTS
    b1 = b1
    b2 = b2
    Books = {b1, b2}
    NoBook = NoBook
    Kept = {b1}
    Lists <- MCLists
    ChunkSize = 2
    Columns = 2
    Opens = {o1}
    Loads = {l1, l2}
    Faults = {"lost"}
INVARIANTS
    MarksHonest
PROPERTIES
    SpreadLoads
CHECK_DEADLOCK FALSE
