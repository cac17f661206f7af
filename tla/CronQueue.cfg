SPECIFICATION FairSpec
CONSTANTS
    Runs = {r1, r2}
    MaxItems = 2
    CronTime = 1
    LeaseTime = 1
    QueueTime = 2
    MaxTime = 3
    NoRow = NoRow
    NoItem = NoItem
INVARIANTS NoLostItem ExclusiveClaim ClaimBacked HooksExclusive
PROPERTIES ClaimReturns ImplementsQueue
\* Runs end and the clock stops at its bound.
CHECK_DEADLOCK FALSE
