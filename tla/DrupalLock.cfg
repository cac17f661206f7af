SPECIFICATION FairSpec
CONSTANTS
    Requests = {r1, r2, r3}
    Names = {cron}
    Timeouts = {1}
    MinTimeout = 1
    Tolerance = 1
    MaxPolls = 1
    MaxTime = 2
    NoRow = NoRow
    NoCall = NoCall
INVARIANTS TypeOK LeaseExclusion LeaseBacked NoForgottenRow
PROPERTIES CallReturns LeaseKept ImplementsLease
\* Requests end and the clock stops at its bound.
CHECK_DEADLOCK FALSE
