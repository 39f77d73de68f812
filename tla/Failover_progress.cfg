SPECIFICATION FairSpec
CONSTANTS
    P = P
    N = N
    M = M
    Hosts = {P, N, M}
    PrimaryHost = P
    Bridges <- ThreeBridges
    Trust <- TrustMixed
    NoRecord = NoRecord
    NoVote = NoVote
    MaxEpoch = 1
    MaxRecords <- Records20
    Publishers = {P}
    MaxCrashes <- CrashPrimary
    MaxDrops = 0
    MaxBridgeRestarts = 0
    RequestsFail = FALSE
    RecordsExpire = FALSE
INVARIANTS
    ElectionSafety
PROPERTIES
    SettledCrashIsSucceeded
CHECK_DEADLOCK FALSE
