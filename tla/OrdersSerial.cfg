CONSTANTS
    Orders = {o1, o2}
    Requests = {r1}
    Lines = {l1, l2}
    Ops <- AllOps
    Faults <- CreateFaults
    MaxCrashes = 2
    None = None
SYMMETRY Symmetry
SPECIFICATION Spec
INVARIANTS TypeOK StockBalanced LedgerSettled FulfilledIsApproved
CHECK_DEADLOCK FALSE
