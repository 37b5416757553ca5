SPECIFICATION PagesSpec
CONSTANTS
    Wallets = {w1, w2}
    Lookups = {w1}
    None = None
    Calls = {c1, c2}
    MaxReads = 3
    MaxWrites = 1
    MaxFaults = 1
    Signers = {w1, w2}
    Null = Null
    Prompts = {p1, p2}
    Requests = {q1, q2}
    REPLAY_WINDOW = 1
    REPLAY_WINDOW_SECS = 2
    MaxTime = 3
SYMMETRY Interchangeable
CHECK_DEADLOCK FALSE
INVARIANTS
    RevokedIsShown
    CompliantIsActive
    SignatureFits
    ReuseLeavesTime
