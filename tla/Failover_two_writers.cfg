SPECIFICATION Spec
CONSTANTS
    P = P
    N = N
    M = M
    Hosts = {P, N}
    PrimaryHost = P
    Bridges <- TwoBridges
    Trust <- TrustAll
    NoRecord = NoRecord
    NoVote = NoVote
    MaxEpoch = 1
    MaxRecords <- Records21
    Publishers = {P, N}
    MaxCrashes <- CrashPrimary
    MaxDrops = 0
    MaxBridgeRestarts = 0
    RequestsFail = TRUE
    RecordsExpire = FALSE
INVARIANTS
    SingleWriter
CONSTRAINT ReplicasConnectWhenElected
CHECK_DEADLOCK FALSE
