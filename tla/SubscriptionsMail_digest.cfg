SPECIFICATION LostSpec
CONSTANTS
    u1 = u1
    u2 = u2
    n1 = n1
    n2 = n2
    Users = {u1, u2}
    Nodes = {n1, n2}
    Subscriptions <- MCSubscriptions
    MaxEvents = 2
    MaxUpsets = 1
    MaxSubmits = 0
    Nothing = Nothing
INVARIANTS DigestSent
\* Nodes are no longer saved.
CHECK_DEADLOCK FALSE
