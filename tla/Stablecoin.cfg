SPECIFICATION Spec
CONSTANTS
    alice = alice
    bob = bob
    a1 = a1
    a2 = a2
    Keys = {alice, bob}
    DefaultKey = DefaultKey
    NoKey = NoKey
    EscrowKey = EscrowKey
    Deployer = alice
    Accounts = {a1, a2}
    FirstOwner <- OneEach
    FixedOwner = {a1}
    Spenders = {EscrowKey}
    Amounts = {1}
    Caps = {0, 1}
    MaxU64 = 2
    REDEMPTION_EXPIRY_SECS = 1
    MaxTime = 1
INVARIANTS
    TypeOK
    SupplyAccounted
    HoldIntact
    HolderCanExit
PROPERTIES
    ClosedByBurnOrReturn
    ImplementsLedger
