\* A behaviour is about one part, so that the parts share the values of their actors.
CONSTANTS
    Kits = {k1}
    Campaigns = {z1, z2}
    KitProducts = {y1, y2}
    Cost <- MCCost
    Prices = {1}
    NoPrice = np
    NoKit = nk
    Keep = keep
    Clerks = {w1}
    ShelfDeaths = 1
    KitSerial = {TRUE}
    DAY = 3
    OFFSET = 1
    CUTOFF_HOUR = 2
    CLOSING_HOUR = 1
    WEEK = 2
    FRIDAY = 1
    EPOCH = 0
    MORNING_HOUR = 0
    ANCHOR = 1
    EVERY = 3
    Replicas = {z1, z2}
    Schedules = {"digest", "weekly", "reminder"}
    MaxDeaths = 1
    JobTime = 5
    Events = {1, 2}
    KindOf <- MCKindOf
    TribeOf <- MCTribeOf
    Logins = {u1, z1, z2}
    Addresses = {y1, y2}
    Usernames = {z1, z2}
    OwnerNames = {y1, y2}
    ConfigParts = {theme, banner}
    Permissions = {members}
    Visits = {1, 2, 3}
    Veteran = u1
    Unset = unset
    EditForms = {{"name", "username"}, {"name", "address"}, {"config"}}
    AccountDeaths = 1
    AtOnce = {1, 2}
SYMMETRY Symmetry
SPECIFICATION Spec
INVARIANTS BackOfficeTypeOK KitsInOrder ReportedOnce AccountsAgree
CHECK_DEADLOCK FALSE
