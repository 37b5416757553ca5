SPECIFICATION GatewaySpec
CONSTANTS
    Requests = {r1, r2, r3}
    NoRow = NoRow
    Limit = 1
    PERIOD_SECS = 1
    DAY_SECS = 1
    MaxTime = 1
    Wallets = {w1, w2}
    Keys = {k1}
    Nonces = {n1, n2}
    Slots = {s1, s2}
    None = None
    Revoked = Revoked
    MaxFaults = 1
SYMMETRY Interchangeable
CHECK_DEADLOCK FALSE
INVARIANTS
    QuotaHeld
    OneLoginPerNonce
    GateTellsTheTruth
    
