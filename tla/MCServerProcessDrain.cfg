\* One handler is enough.
SPECIFICATION Spec
CONSTANTS
    Handlers = {h1}
    Merges = {m1}
INVARIANTS
    DrainWindow
CHECK_DEADLOCK FALSE
