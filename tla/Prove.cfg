CONSTANTS
    Flows = {1, 2}
    LEN = 3
    WRITES_PER_TX = 2
    RESIZE_STEP = 2
    NoPayload = NoPayload
    MaxFaults = 1
    Versions = {1, 2}
    MaxMounts = 2
SPECIFICATION FairSpec
INVARIANTS
    OneRunner
    VerifiedMeansFinalized
    OwnProofStaged
    RetrySucceeds
PROPERTIES
    FlowsEnd
CHECK_DEADLOCK FALSE
