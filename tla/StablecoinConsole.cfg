SPECIFICATION ConsoleSpec
CONSTANTS
    alice = alice
    bob = bob
    a1 = a1
    Keys = {alice, bob}
    DefaultKey = DefaultKey
    NoKey = NoKey
    EscrowKey = EscrowKey
    Deployer = alice
    Accounts = {a1}
    FirstOwner <- BobsAccount
    FixedOwner = {a1}
    Spenders = {}
    Amounts = {0, 1}
    Caps = {0, 1}
    MaxU64 = 2
    REDEMPTION_EXPIRY_SECS = 1
    MaxTime = 1
    MaxSends = 2
    MaxDigits = 2
INVARIANTS
    ActsOnWhatWasShown
    OfferedIsAccepted
    AmountsRoundTrip
CHECK_DEADLOCK FALSE
