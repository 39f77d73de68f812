SPECIFICATION LeaseSpec
CONSTANTS
    Bridges = {b1, b2, b3}
    FenceAfter = 2
    Grace = 5
    RenewEvery = 3
    MaxDelay = 1
    MaxDrops = 2
    Prompt = FALSE
SYMMETRY BridgeSymmetry
INVARIANT
    FencedBeforeAbsent
CHECK_DEADLOCK FALSE
