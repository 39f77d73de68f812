SPECIFICATION Spec
CONSTANTS
    Identities = {ann, bob}
    MessageIds = {m1, m2}
    AssetIds = {a1}
    Contents = {h1, h2}
    TotalChunks = 2
    AssetBytes = 2
    SpoolQuota = 4
    MemberQuota = 3
    MaxPendingPerMember = 1
    MaxPendingGlobal = 1
    MaxSends = 3
    MaxTurns = 2
    None = None
SYMMETRY IdSymmetry
INVARIANTS
    AccountsExact
    LinkedWithMessage
    ReadableIsWhole
PROPERTY
    PurgedWhenConsumed
CHECK_DEADLOCK FALSE
