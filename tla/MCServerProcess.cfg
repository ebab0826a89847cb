\* Two handlers and two merges.
SPECIFICATION FairSpec
CONSTANTS
    Handlers = {h1, h2}
    Merges = {m1, m2}
PROPERTIES
    SignalEnds
\* The process ends.
CHECK_DEADLOCK FALSE
