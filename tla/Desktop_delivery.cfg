SPECIFICATION Spec
CONSTANTS
    m1 = m1
    t1 = t1
    t2 = t2
    Owner = o
    Members = {m1}
    OverIce <- MCOverIce
    Messages = {t1, t2}
    Attached <- MCAttached
    Chunks = {0}
    Syncs = {1, 2}
    None = None
    MaxSent = 1
    MaxKeys = 2
    MaxAttempts = 2
    MaxFaults = 1
INVARIANTS
    WelcomesAreKept
    MessagesAreKept
PROPERTIES
    ConsumedOnce
    SessionsCatchUp
CHECK_DEADLOCK FALSE
