CONSTANTS
    Orders = {o1}
    Codes = {c1}
    Kinds = {k1}
    Requests = {r1}
    Ops <- RevertCancel
    Exclusive = FALSE
    MaxCrashes = 0
    Typed = Typed
    None = None
SYMMETRY Symmetry
SPECIFICATION Spec
INVARIANTS CancelledHoldsNothing
CHECK_DEADLOCK FALSE
