SPECIFICATION QuotaSpec
CONSTANTS
    Requests = {r1, r2, r3, r4}
    NoRow = NoRow
    Limit = 2
    PERIOD_SECS = 1
    DAY_SECS = 1
    MaxTime = 1
CHECK_DEADLOCK FALSE
INVARIANTS
    AllowsExactlyLimit
