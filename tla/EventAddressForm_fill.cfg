SPECIFICATION Spec
CONSTANTS
    a = a
    Projects = {p1, p2}
    Queries = {a}
    Typed <- MCTyped
    MaxKeys = 1
    Places = {a1, a2}
    MaxLookups = 2
    MaxEdits = 2
    Nothing = Nothing
SYMMETRY Symmetry
INVARIANTS TypeOK LastSelectionFills CacheStale
\* The visitor stops.
CHECK_DEADLOCK FALSE
