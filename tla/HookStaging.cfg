SPECIFICATION Spec
CONSTANTS
    m1 = m1
    m2 = m2
    s1 = s1
    j1 = j1
    n1 = n1
    n2 = n2
    usd = usd
    eur = eur
    bob = bob
    carol = carol
    ZeroRoot = ZeroRoot
    ZeroNullifier = ZeroNullifier
    NoIssuer = NoIssuer
    NoPayload = NoPayload
    NoClaim = NoClaim
    NoArgs = NoArgs
    NoByte = NoByte
    NoCheck = NoCheck
    Authorities = {issuer1, issuer2}
    Roots <- OneRoot
    Claims <- SharedClaims
    Proofs <- SharedProofs
    HookedMints = {usd}
    Trees = {t1}
    TreeRoots <- FirstRoots
    ROOT_HISTORY = 2
    Tails = {0, 8}
    ProofLens = {0, 2, 3}
    PROOF_LEN = 2
    MAX_HOOK_PROOF_BYTES = 2
    RESIZE_STEP = 1
    BUBBLEGUM_MINT_V1_ACCOUNT_COUNT = 8
    MAX_LEAVES = 1
    MAX_ROOT_AGE_SLOTS = 1
    MAX_ATTESTATION_AGE_SLOTS = 1
    EPOCH_LEN_SECS = 2
    MAX_EPOCH_LAG = 1
    MaxSlot = 0
    MaxTime = 0
    MaxTreeRoots = 2
    MaxPublications = 1
SYMMETRY Interchangeable
INVARIANTS
    OthersDoNotBlock
    TransfersOutliveTheTree
PROPERTIES
    ImplementsStaging
