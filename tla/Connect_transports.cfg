SPECIFICATION Spec
CONSTANTS
    Requests = {r1, r2}
    HostKeys = {k1, k2}
    None = None
    NoSession = NoSession
    MaxGeneration = 4
    MaxFaults = 2
    MaxAttempts = 3
    MaxOutbound = 1
INVARIANTS
    RequestsInOrder
PROPERTIES
    ImplementsPromise
    SessionsHold
    Reconnects
CHECK_DEADLOCK FALSE
