CONSTANTS
    Orders = {o1, o2}
    Requests = {r1}
    Lines = {l1}
    Ops <- AllOps
    Faults <- NoFaults
    MaxCrashes = 0
    None = None
SYMMETRY Symmetry
SPECIFICATION Spec
INVARIANTS CancelledEarnsNothing
CHECK_DEADLOCK FALSE
