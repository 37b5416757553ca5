SPECIFICATION Spec
CONSTANTS
    None = None
    Invalid = Invalid
    n1 = n1
    n2 = n2
    n3 = n3
    acme = acme
    globex = globex
    Chain <- MixedChain
    Requests <- MixedRequests
    Deliveries = {d1, d2}
    MaxDeliveries = 2
    Issuers = {acme}
    RowsPerPage = 1
    Window = 1
    OpenedAt = 2
    MaxClock = 2
    MaxFilters = 2
SYMMETRY Interchangeable
INVARIANTS
    OneRowPerNullifier
    LostOnlyByFault
    OnlyCursorsMissing
CHECK_DEADLOCK FALSE
