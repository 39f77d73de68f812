SPECIFICATION Spec
CONSTANTS
    Identities = {ann, bob}
    Founder = ann
    Devices = {d1, d2}
    FounderDevice = d1
    CustomRoles = {r1}
    CustomRoleChoices <- MCCustomRoleChoices
    Channels = {c1}
    Invites = {"first", "second"}
    FirstInvites <- MCFirstInvites
    Links = {l1}
    MaxLinks = 1
    VoiceLimits = {1}
    DefaultVoiceLimit = 1
    MaxOps = 3
    None = None
    Sockets = {s1, s2}
    IceSessions = {ice}
    Direct = Direct
    MaxPerIp = 1
    MaxLoopback = 2
    MaxPerIceSession = 1
    NamedRoles = {"role-owner", "role-admin"}
    NamedOverrides <- MCOverrides
    UsesOffered = {2}
    PresenceChoices = {"online"}
    MaxConnects = 3
    MaxTurns = 1
SYMMETRY SocketSymmetry
INVARIANTS
    SessionsCounted
    MembershipHolds
PROPERTIES
    OwnersAreNotDeposed
    DevicesAreVouched
CHECK_DEADLOCK FALSE
