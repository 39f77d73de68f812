SPECIFICATION Spec
CONSTANTS
    P = P
    N = N
    M = M
    Hosts = {P, N}
    PrimaryHost = P
    Bridges <- TwoBridges
    Trust <- TrustAll
    NoRecord = NoRecord
    NoVote = NoVote
    MaxEpoch = 1
    MaxRecords <- Records21
    Publishers = {P, N}
    MaxCrashes <- NoCrash
    MaxDrops = 1
    MaxBridgeRestarts = 1
    RequestsFail = TRUE
    RecordsExpire = TRUE
INVARIANTS
    SingleWriter
PROPERTIES
    ImplementsElection
CONSTRAINT ReplicasConnectWhenElected
CHECK_DEADLOCK FALSE
