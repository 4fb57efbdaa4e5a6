CONSTANTS
    Calls = {c1, c2, c3}
    MaxTokens = 3
    MaxCalls = 4
    Letters = {q1, q2}
    Desks = {d1, d2}
    DeskTime = 3
    Never = never
    OneDesk = {TRUE, FALSE}
    NoDate = noDate
    MonthStarts <- MCMonthStarts
    DAY = 48
    OFFSET = 11
    CUTOFF_HOUR = 42
    CLOSING_HOUR = 36
    WEEK = 7
    FRIDAY = 5
    EPOCH = 4
    MORNING_HOUR = 16
    ANCHOR = 0
    EVERY = 3
    Parts = {"api", "intake", "split", "units", "kits", "stock", "urgency", "buckets", "range", "windows"}
SPECIFICATION Spec
INVARIANTS ServicesTypeOK TokenShared SeenOnce SumsRight
PROPERTY CallsEnd
CHECK_DEADLOCK FALSE
