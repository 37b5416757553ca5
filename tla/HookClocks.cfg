SPECIFICATION Spec
CONSTANTS
    m1 = m1
    m2 = m2
    s1 = s1
    j1 = j1
    n1 = n1
    n2 = n2
    usd = usd
    eur = eur
    bob = bob
    carol = carol
    ZeroRoot = ZeroRoot
    ZeroNullifier = ZeroNullifier
    NoIssuer = NoIssuer
    NoPayload = NoPayload
    NoClaim = NoClaim
    NoArgs = NoArgs
    NoByte = NoByte
    NoCheck = NoCheck
    Authorities = {issuer1}
    Roots <- TwoRoots
    Claims <- ClockClaims
    Proofs <- ClockProofs
    HookedMints = {usd}
    Trees = {t1}
    TreeRoots = {0}
    ROOT_HISTORY = 1
    Tails = {0}
    ProofLens = {1}
    PROOF_LEN = 1
    MAX_HOOK_PROOF_BYTES = 1
    RESIZE_STEP = 1
    BUBBLEGUM_MINT_V1_ACCOUNT_COUNT = 8
    MAX_LEAVES = 1
    MAX_ROOT_AGE_SLOTS = 1
    MAX_ATTESTATION_AGE_SLOTS = 1
    EPOCH_LEN_SECS = 2
    MAX_EPOCH_LAG = 1
    MaxSlot = 2
    MaxTime = 4
    MaxTreeRoots = 0
    MaxPublications = 2
INVARIANTS
    AttestedAgainstCurrentRoots
    TimestampRecent
    ReplacedRootsExpire
PROPERTIES
    ImplementsRegistry
