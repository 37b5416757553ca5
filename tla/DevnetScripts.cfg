CONSTANTS
    Runs = {1, 2, 3}
    None = None
    Terminals = 2
    BenchRuns = 2
    Count = 3
    Concurrency = 2
    ATA_BATCH = 2
    MaxFaults = 1
SPECIFICATION Spec
INVARIANTS
    FileIsComplete
    FinalizedIsClosed
    ReportAccountsForAll
CHECK_DEADLOCK FALSE
