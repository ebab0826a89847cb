\* A catalog whose detail may have a page twice, in two chunks.
\* It may be deleted, which leaves the page nothing to do.
SPECIFICATION FairSpec
CONSTANTS
    b1 = b1
    b2 = b2
    Books = {b2}
    NoBook = NoBook
    Kept = {}
    Lists <- MCGrowing
    ChunkSize = 1
    Columns = 2
    Opens = {o1}
    Loads = {l1, l2}
    Faults = {"lost"}
INVARIANTS
    MarksHonest
    OneFetchPerPage
PROPERTIES
    SpreadLoads
CHECK_DEADLOCK FALSE
