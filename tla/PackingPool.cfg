CONSTANTS
    Orders = {o1}
    Codes = {c1, c2}
    Kinds = {k1, k2}
    Requests = {r1, r2}
    Ops <- PoolOps
    Exclusive = FALSE
    MaxCrashes = 1
    Typed = Typed
    None = None
SYMMETRY Symmetry
SPECIFICATION Spec
INVARIANTS OneBarcodeEach WrittenOffUnused
