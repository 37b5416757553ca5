SPECIFICATION FairSpec
CONSTANTS
    Wallets = {w1, w2}
    Http = Http
    Rotation = Rotation
    Updater = Updater
    NoCall = NoCall
    NoIssuer = NoIssuer
    NoFile = NoFile
    NoPath = NoPath
    NoOne = NoOne
    ZeroLeaf = ZeroLeaf
    ZeroRoot = ZeroRoot
    NoSanctions = NoSanctions
    Lists = {l1}
    LateErrors = TRUE
    MaxChanges = 2
    MaxRestarts = 1
    MaxErrors = 1
    MaxDisconnects = 1
CHECK_DEADLOCK FALSE
INVARIANTS
    TreeMatchesCredentials
    AckedIsDurable
    CleanMeansPublished
PROPERTIES
    RootsMoveForward
    PublishConfirmed
