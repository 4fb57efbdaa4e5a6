CONSTANTS
    Requests = {r1, r2, r3}
    Utrs = {u1}
    MaxEarned = 3
    MaxCrashes = 1
    None = None
SYMMETRY Symmetry
SPECIFICATION Spec
INVARIANTS TypeOK NeverOverdrawn OneTransferPerUtr RowsArePaid
PROPERTIES ImplementsWallet
CHECK_DEADLOCK FALSE
