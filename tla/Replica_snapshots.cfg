SPECIFICATION Spec
CONSTANTS
    Replicas = {r1, r2}
    Primary = p
    None = None
    MaxGrants = 2
    MaxLog = 6
    MaxChain = 1
    MaxFaults = 2
INVARIANTS
    GrantsHold
PROPERTIES
    ReplicaIsKept
    WritersAreElected
    CatchesUp
CHECK_DEADLOCK FALSE
