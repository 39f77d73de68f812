SPECIFICATION Spec
CONSTANTS
    Bridges = {b1}
    Providers = {ngrok, tailscale, zrok}
    Processes = {ngrok}
    Switches = {tailscale}
    Shares = {zrok}
    MaxSeq = 2
    None = None
    Slots = {c1, c2}
    Hosts = {h1, h2, h3}
    MaxCalls = 4
    MaxFaults = 1
SYMMETRY Symmetry
INVARIANTS
    StartedIsTracked
    HostDataRecoverable
PROPERTIES
    RoutesStayTracked
    HostRunsCurrentConfig
    StoreIsKept
CHECK_DEADLOCK FALSE
