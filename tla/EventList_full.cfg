SPECIFICATION Spec
CONSTANTS
    Times = {1, 2}
    Titles = {1, 2}
    Nids = {1, 2, 3}
    MaxDates = 2
    MaxMax = 3
INVARIANTS PageFull
\* The clock stops when all events are past.
CHECK_DEADLOCK FALSE
