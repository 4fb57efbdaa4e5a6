\* A behaviour is about one part, so that the parts share the values of their actors.
CONSTANTS
    Senders = {x1, x2}
    Guessers = {g1, g2}
    CODE_TTL = 2
    RESEND_COOLDOWN = 1
    HOUR = 3
    DAY = 5
    MAX_ATTEMPTS = 2
    MAX_SENDS_PER_HOUR = 2
    MAX_SENDS_PER_DAY = 3
    FirstEver = {FALSE}
    MaxTime = 4
    MaxCodes = 4
    Inbound = {1, 2}
    SentAt <- MCSentAt
    From <- MCFrom
    Hooks = {x1, x2}
    Agents = {a1}
    WINDOW = 1
    MaxChatTime = 3
    MaxRestarts = 1
    Parcels = {o1, o2}
    Workers = {x1, x2}
    Scans <- MCScans
    Jobs = {"hook", "sync", "bulk", "revert"}
    Alone = {TRUE, FALSE}
    MaxTouches = 1
    NoParcel = none
SYMMETRY Symmetry
SPECIFICATION Spec
INVARIANTS MessagesTypeOK CodesGuarded HeardOnce
PROPERTIES RepliesInWindow PostalObeyed
CHECK_DEADLOCK FALSE
