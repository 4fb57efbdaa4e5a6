CONSTANTS
    Orders = {o1, o2, o3}
    Requests = {r1, r2}
    Lines = {l1}
    Ops <- ResendOps
    Faults <- UnseenFaults
    MaxCrashes = 0
    None = None
SYMMETRY Symmetry
SPECIFICATION Spec
INVARIANTS StockBalanced OneReplacement
CHECK_DEADLOCK FALSE
