SPECIFICATION Spec
CONSTANTS
    h1 = h1
    h2 = h2
    c1 = c1
    c2 = c2
    t1 = t1
    Nobody = Nobody
    Hosts = {h1, h2}
    Tokens = {t1}
    CommunityOf <- TwoCommunities
    MaxGeneration = 3
    MaxSigned <- LongAndShort
    MaxSeq = 2
    CompactAt = 4
    FaultBudgets <- CrashesOrError
INVARIANTS
    FileIsTheState
    WrittenAhead
    RevokedAreOut
    AuthorityIsAccepted
PROPERTIES
    ImplementsPromise
CHECK_DEADLOCK FALSE
