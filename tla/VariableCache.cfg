SPECIFICATION FairSpec
CONSTANTS
    Requests = {r1, r2, r3}
    LeaseTime = 1
    MaxSets = 2
    MaxTime = 3
    NoRow = NoRow
INVARIANTS TypeOK NoStampede StaleOnlyByRace
PROPERTIES RequestsBoot
\* Requests end and the clock stops at its bound.
CHECK_DEADLOCK FALSE
