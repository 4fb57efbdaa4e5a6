\* A behaviour is about one part, so that the parts share the values of their actors.
CONSTANTS
    Created = {1, 2}
    Phones = {p1, p2}
    Members = {x1, x2, x3}
    Writers = {y1, y2}
    Script = sc
    MaxText = 1
    SYNC_ATTEMPTS = 2
    MemberOps = {"create", "edit", "attach", "delete", "restore", "backfill"}
    Quiet = TRUE
    Mortal = TRUE
    Patient = TRUE
    Nobody = nobody
    Bought = {1, 2, 3}
    Extras = {4}
    Editors = {x1, x2, x3}
    Shares <- MCShares
    SaleTypes = {"sale", "kit"}
    MaxSlips = 1
    NoLine = noLine
    Sizes = {y1, y2}
    Unassigned = un
    Requests = {x1, x2, x3}
    Counts = {0, 2}
    StockDeaths = 1
    Serial = {TRUE, FALSE}
    Papers = {y1, y2}
    Numbers = {1, 2}
    Errands = {x1, x2, x3}
    NoFile = nf
    PaperFaults = 1
    OneByOne = {TRUE, FALSE}
SYMMETRY Symmetry
SPECIFICATION Spec
INVARIANTS
    RecordsTypeOK MembersInOrder BasketAddsUp PapersInOrder
PROPERTIES StockExplained
CHECK_DEADLOCK FALSE
