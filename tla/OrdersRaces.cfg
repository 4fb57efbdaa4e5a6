CONSTANTS
    Orders = {o1}
    Requests = {r1, r2, r3}
    Lines = {l1}
    Ops <- GuardedOps
    Faults <- UnseenFaults
    MaxCrashes = 0
    None = None
SPECIFICATION FairSpec
INVARIANTS StockBalanced
PROPERTIES FollowsBoard ShelfRestored
