CONSTANTS
    Orders = {o1, o2}
    Codes = {c1, c2}
    Kinds = {k1, k2}
    Requests = {r1, r2}
    Ops <- NoUnmark
    Exclusive = TRUE
    MaxCrashes = 0
    Typed = Typed
    None = None
SYMMETRY Symmetry
SPECIFICATION Spec
INVARIANTS TypeOK ShownIsHeld LabelFits
PROPERTIES ParcelKeepsBarcode
