SPECIFICATION FairSpec
CONSTANTS
    a = a
    b = b
    Projects = {p1, p2}
    Queries = {a, b}
    Typed <- MCTyped
    MaxKeys = 3
    Nothing = Nothing
INVARIANTS SearchShown SearchUnderWay
PROPERTY SearchEnds
\* The visitor stops.
CHECK_DEADLOCK FALSE
