\* Two details that arrive in the other order.
SPECIFICATION Spec
CONSTANTS
    b1 = b1
    b2 = b2
    Books = {b1, b2}
    NoBook = NoBook
    Kept = {b1}
    Lists <- MCLists
    ChunkSize = 2
    Columns = 2
    Opens = {o1, o2}
    Loads = {l1, l2}
    Faults = {}
INVARIANTS
    BookFollowsRoute
CHECK_DEADLOCK FALSE
