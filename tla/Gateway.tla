------------------------------- MODULE Gateway -------------------------------
(***************************************************************************)
(* The WebSocket gateway of a JanjaNode (apps/janjanode/src/gateway.ts) in *)
(* front of its Community: connection limits, the device challenge, the    *)
(* sessions, and the commands they carry.                                  *)
(*                                                                         *)
(* All sockets come from one loopback address, as those the ICE gateway    *)
(* forwards do.  close() only starts the closing handshake: frames that    *)
(* are already under way are handled, and the connection keeps its place,  *)
(* until the socket's close event.  So the places where the gateway closes *)
(* a socket (the authentication deadline, malformed or forbidden frames,   *)
(* an attempt too many) change nothing here: what matters is Disconnect,   *)
(* which may come at any time.                                             *)
(***************************************************************************)
EXTENDS Community

CONSTANTS
    Sockets,
    IceSessions,       \* values of the x-jc-ice-session header
    Direct,            \* no such header
    MaxPerIp,          \* MAX_CONNECTIONS_PER_IP
    MaxLoopback,       \* connections of an address that forwards ICE sessions (32)
    MaxPerIceSession,  \* MAX_ICE_CONNECTIONS_PER_SESSION
    NamedRoles,        \* bound: the roles commands name
    NamedOverrides,    \* bound: the overrides channel.updateOverrides asks for
    UsesOffered,       \* bound: maxUses of the invites asked for
    PresenceChoices,   \* bound: the states presence.set asks for
    MaxConnects,       \* bound: connections accepted or refused
    MaxTurns           \* bound: changes of write authority, and restarts

ASSUME GatewayAssumption ==
    /\ IsFiniteSet(Sockets)
    /\ Direct \notin IceSessions /\ None \notin IceSessions \cup {Direct}
    /\ NamedRoles \subseteq RoleIds /\ PresenceChoices \subseteq PresenceState
    /\ NamedOverrides \subseteq Override /\ UsesOffered \subseteq Nat \ {0}
    /\ {MaxPerIp, MaxLoopback, MaxPerIceSession, MaxConnects, MaxTurns} \subseteq Nat

Origins == IceSessions \cup {Direct}

VARIABLES
    up,              \* the process runs
    writer,          \* ServerService.writer
    status,          \* [Sockets -> SocketStatus], the transport's
    origin,          \* connectionIps and connectionIceSessions: Origins, or None if released
    ipConnections, iceSessionConnections,
    identity, device,   \* identities, devicePublicKeys
    pending,            \* pendingDeviceEnrollment
    challenged,         \* sockets with a challenge that was not proved yet
    connects, turns     \* the bounds

socketVars  == <<status, origin, ipConnections, iceSessionConnections>>
sessionVars == <<identity, device, pending, challenged>>
boundVars   == <<connects, turns>>
gatewayVars == <<up, writer, socketVars, sessionVars, boundVars>>
vars        == <<communityVars, gatewayVars>>

\* refused: closed by acceptConnection, without a message listener.
SocketStatus == {"none", "open", "refused"}

Session(s) == status[s] = "open" /\ identity[s] # None

Init ==
    /\ CommunityInit
    /\ up = TRUE /\ writer = TRUE
    /\ status = [s \in Sockets |-> "none"]
    /\ origin = [s \in Sockets |-> None]
    /\ ipConnections = 0
    /\ iceSessionConnections = [o \in IceSessions |-> 0]
    /\ identity = [s \in Sockets |-> None]
    /\ device = [s \in Sockets |-> None]
    /\ pending = {}
    /\ challenged = {}
    /\ connects = 0 /\ turns = 0

\* deviation: the refusal leaves the socket in connectionIps
ConnectUnreleased(s, o) ==
    /\ up /\ status[s] = "none" /\ connects < MaxConnects
    /\ connects' = connects + 1
    /\ LET full == ipConnections >= (IF o = Direct THEN MaxPerIp ELSE MaxLoopback)
           over == o # Direct /\ iceSessionConnections[o] >= MaxPerIceSession
       IN  IF full \/ over
           THEN /\ status' = [status EXCEPT ![s] = "refused"]
                /\ origin' = IF full THEN origin ELSE [origin EXCEPT ![s] = Direct]
                /\ UNCHANGED <<ipConnections, iceSessionConnections>>
           ELSE /\ status' = [status EXCEPT ![s] = "open"]
                /\ origin' = [origin EXCEPT ![s] = o]
                /\ ipConnections' = ipConnections + 1
                /\ iceSessionConnections' = [x \in IceSessions |->
                       iceSessionConnections[x] + (IF x = o THEN 1 ELSE 0)]
    /\ UNCHANGED <<communityVars, up, writer, sessionVars, turns>>

(***************************************************************************)
(* Connections.                                                            *)
(***************************************************************************)
\* acceptConnection.  The address is counted first; a refusal for the limit of
\* the ICE session puts its counter back.
Connect(s, o) ==
    /\ up /\ status[s] = "none" /\ connects < MaxConnects
    /\ connects' = connects + 1
    /\ LET full    == ipConnections >= (IF o = Direct THEN MaxPerIp ELSE MaxLoopback)
           refused == full \/ (o # Direct /\ iceSessionConnections[o] >= MaxPerIceSession)
       IN  IF refused
           THEN /\ status' = [status EXCEPT ![s] = "refused"]
                /\ UNCHANGED <<origin, ipConnections, iceSessionConnections>>
           ELSE /\ status' = [status EXCEPT ![s] = "open"]
                /\ origin' = [origin EXCEPT ![s] = o]
                /\ ipConnections' = ipConnections + 1
                /\ iceSessionConnections' = [x \in IceSessions |->
                       iceSessionConnections[x] + (IF x = o THEN 1 ELSE 0)]
    /\ UNCHANGED <<communityVars, up, writer, sessionVars, turns>>

\* releaseConnection: only what the socket still holds is given back.
ReleaseConnection(s) ==
    /\ origin' = [origin EXCEPT ![s] = None]
    /\ ipConnections' = IF origin[s] # None /\ ipConnections > 0
                        THEN ipConnections - 1 ELSE ipConnections
    /\ iceSessionConnections' = [x \in IceSessions |->
           IF x = origin[s] /\ iceSessionConnections[x] > 0
           THEN iceSessionConnections[x] - 1 ELSE iceSessionConnections[x]]

\* The close event, of either side's close: handleDisconnect.  Another socket of
\* the same identity is not looked for before its presence goes offline.
Disconnect(s) ==
    /\ up /\ status[s] # "none"
    /\ status' = [status EXCEPT ![s] = "none"]
    /\ IF identity[s] # None /\ writer
       THEN SetPresence(identity[s], "offline") ELSE UNCHANGED communityVars
    /\ identity' = [identity EXCEPT ![s] = None]
    /\ device' = [device EXCEPT ![s] = None]
    /\ pending' = pending \ {s}
    /\ challenged' = challenged \ {s}
    /\ ReleaseConnection(s)
    /\ UNCHANGED <<up, writer, boundVars>>

(***************************************************************************)
(* Authentication.  What a client can prove is that it holds the device    *)
(* key it named; the identity it names with it is the client's word.  The  *)
(* attempts of an origin's minute are not counted here: an attempt is      *)
(* within the limit, or it is one too many and closes the socket.          *)
(***************************************************************************)
AuthBegin(s) ==
    /\ up /\ status[s] = "open"
    /\ identity[s] = None /\ s \notin challenged
    /\ challenged' = challenged \cup {s}
    /\ UNCHANGED <<communityVars, up, writer, socketVars, identity, device, pending, boundVars>>

\* A proof in time whose signature is not its device's uses the challenge up; any
\* other rejected attempt leaves everything as it is, and closes the socket.
AuthRejected(s) ==
    /\ up /\ status[s] = "open"
    /\ s \in challenged
    /\ challenged' = challenged \ {s}
    /\ UNCHANGED <<communityVars, up, writer, socketVars, identity, device, pending, boundVars>>

NeedsEnrollment(i, d) == IsMember(i) /\ ~IsAuthorizedDevice(i, d)

\* auth.prove of the identity and the device auth.begin named, with that device's
\* signature of the challenge.  Whether the device must be enrolled is decided here.
AuthProve(s, i, d) ==
    /\ up /\ status[s] = "open"
    /\ s \in challenged
    /\ identity' = [identity EXCEPT ![s] = i]
    /\ device' = [device EXCEPT ![s] = d]
    /\ pending' = IF NeedsEnrollment(i, d) THEN pending \cup {s} ELSE pending
    /\ challenged' = challenged \ {s}
    /\ UNCHANGED <<communityVars, up, writer, socketVars, boundVars>>

(***************************************************************************)
(* Commands of an authenticated session: the gate, then route.             *)
(***************************************************************************)
\* The gates of "hello" and "command" before the operation.
MayCommand(s) == up /\ Session(s) /\ s \notin pending

\* canAcceptCommand: none of the operations below is accepted by a replica.
MayWrite(s) == MayCommand(s) /\ writer

Hello(s) ==
    /\ MayCommand(s)
    /\ IF writer THEN SetPresence(identity[s], "online") ELSE UNCHANGED communityVars
    /\ UNCHANGED gatewayVars

Command(s) ==
    /\ MayWrite(s)
    /\ LET i == identity[s]
           d == device[s]
       IN  \/ \E id \in Invites : JoinByInvite(i, d, id)
           \/ Leave(i)
           \/ \E j \in Identities : TransferOwnership(i, j)
           \/ \E j \in Identities : Kick(i, j) \/ Ban(i, j)
           \/ \E j \in Identities, r \in NamedRoles : RoleAssign(i, j, r)
           \/ \E r \in CustomRoles, role \in CustomRoleChoices : RoleCreate(i, r, role)
           \/ \E n \in VoiceLimits : UpdateConfig(i, n)
           \/ \E c \in Channels : ChannelCreate(i, c)
           \/ \E c \in Channels, r \in NamedRoles, o \in NamedOverrides :
                  ChannelUpdateOverrides(i, c, r, o)
           \/ \E id \in Invites, r \in NamedRoles, n \in UsesOffered, known \in BOOLEAN :
                  InviteCreate(i, id, r, n, known)
           \/ \E id \in Invites : InviteRevoke(i, id)
           \/ \E new \in Devices, l \in Links : AuthorizeDeviceLink(i, d, new, l)
           \/ \E c \in Channels : CallJoin(i, c) \/ CallLeave(i, c)
           \/ \E state \in PresenceChoices : SetPresence(i, state)
    /\ UNCHANGED gatewayVars

\* device.enroll is the one command a pending session may send; on success it is
\* pending no more.
Enroll(s) ==
    /\ up /\ Session(s) /\ writer
    /\ \E l \in Links : EnrollDevice(identity[s], device[s], l)
    /\ pending' = pending \ {s}
    /\ UNCHANGED <<up, writer, socketVars, identity, device, challenged, boundVars>>

(***************************************************************************)
(* The process.                                                            *)
(***************************************************************************)
\* What was in memory is gone; the sockets are gone with it.
Stop ==
    /\ up' = FALSE /\ writer' = FALSE
    /\ status' = [s \in Sockets |-> "none"]
    /\ origin' = [s \in Sockets |-> None]
    /\ ipConnections' = 0
    /\ iceSessionConnections' = [o \in IceSessions |-> 0]
    /\ identity' = [s \in Sockets |-> None]
    /\ device' = [s \in Sockets |-> None]
    /\ pending' = {}
    /\ challenged' = {}
    /\ calls' = [c \in Channels |-> {}]
    /\ UNCHANGED <<tables, opLog, boundVars>>

\* An exception of an operation that nothing catches, up to the process.
CommandThrows(s) ==
    /\ MayWrite(s)
    /\ \/ \E id \in Invites : JoinThrows(identity[s], device[s], id)
       \/ \E j \in Identities, r \in NamedRoles : RoleAssignThrows(identity[s], j, r)
    /\ Stop

Restart ==
    /\ ~up /\ turns < MaxTurns
    /\ up' = TRUE /\ turns' = turns + 1
    /\ UNCHANGED <<communityVars, writer, socketVars, sessionVars, connects>>

\* Fenced, promoted or resumed: HostFailover and WriteLease say when.
WriterChanges ==
    /\ up /\ turns < MaxTurns
    /\ writer' = ~writer /\ turns' = turns + 1
    /\ UNCHANGED <<communityVars, up, socketVars, sessionVars, connects>>

Next ==
    \/ \E s \in Sockets, o \in Origins : Connect(s, o)
    \/ \E s \in Sockets, i \in Identities, d \in Devices : AuthProve(s, i, d)
    \/ \E s \in Sockets :
          \/ Disconnect(s) \/ AuthBegin(s) \/ AuthRejected(s)
          \/ Hello(s) \/ Command(s) \/ Enroll(s) \/ CommandThrows(s)
    \/ \E id \in Invites : InviteExpires(id) /\ UNCHANGED gatewayVars
    \/ \E l \in Links : LinkExpires(l) /\ UNCHANGED gatewayVars
    \/ Restart \/ WriterChanges

Spec == Init /\ [][Next]_vars

(***************************************************************************)
(* Properties.                                                             *)
(***************************************************************************)
\* Every table row and every gateway map holds what its schema or type says.
TypeOK ==
    /\ members \in [Identities -> RoleIds \cup {None}]
    /\ bans \subseteq Identities
    /\ memberDevices \in [Identities -> SUBSET Devices]
    /\ DOMAIN roles \subseteq RoleIds /\ DOMAIN BuiltInRoles \subseteq DOMAIN roles
    /\ \A i \in Identities : IsMember(i) => members[i] \in DOMAIN roles
    /\ DOMAIN channels \subseteq Channels
    /\ \A c \in DOMAIN channels : channels[c] \in [RoleIds -> Override]
    /\ DOMAIN invites \subseteq Invites
    /\ \A id \in DOMAIN invites : invites[id] \in Invite /\ invites[id].used <= invites[id].max
    /\ DOMAIN capabilities \subseteq Links
    /\ \A l \in DOMAIN capabilities : capabilities[l] \in Link
    /\ \A i \in Identities : Cardinality(LiveLinks(i)) <= MaxLinks
    /\ voiceLimit \in VoiceLimits /\ opLog \in 0..MaxOps
    /\ presence \in [Identities -> PresenceState]
    /\ calls \in [Channels -> SUBSET Identities]
    /\ status \in [Sockets -> SocketStatus]
    /\ origin \in [Sockets -> Origins \cup {None}]
    /\ identity \in [Sockets -> Identities \cup {None}]
    /\ device \in [Sockets -> Devices \cup {None}]
    /\ challenged \subseteq {s \in Sockets : status[s] = "open"}
    /\ pending \subseteq {s \in Sockets : identity[s] # None}

\* Through transfers, kicks, bans, departures and owner invites, in any order, the
\* community never finds itself without an owner ("sem owner duplo nem sem owner").
OwnerExists == \E i \in Identities : HoldsOwner(i)

\* Whatever invite it holds, and whoever issued it before or after the ban, a banned
\* identity is not a member.
BannedAreOut == \A i \in bans : ~IsMember(i)

\* The connection counters are exactly the sockets that hold a place: refusals
\* after the address was counted, closes of either side and late close events
\* neither leak a place nor give one back twice.
CountersExact ==
    LET holding(O) == {s \in Sockets : status[s] = "open" /\ origin[s] \in O}
    IN  /\ ipConnections = Cardinality(holding(Origins))
        /\ \A o \in IceSessions : iceSessionConnections[o] = Cardinality(holding({o}))
        /\ \A s \in Sockets : origin[s] # None <=> status[s] = "open"

\* An owner stops being one only while a session of its own may command: one that has none
\* cannot be demoted, kicked or banned by another owner, nor by an administrator.
OwnersAreNotDeposed ==
    [][\A i \in Identities : HoldsOwner(i) /\ ~HoldsOwner(i)' =>
           \E s \in Sockets : MayWrite(s) /\ identity[s] = i]_vars

\* A device joins a member's devices only against a live capability that one of the
\* devices the member already had was authorised to issue for that very device, and
\* the capability is spent by it.
EnrolledWasVouched ==
    [][\A i \in Identities : \A d \in memberDevices'[i] \ memberDevices[i] : IsMember(i) =>
           \E l \in LiveLinks(i) :
               /\ capabilities[l].device = d
               /\ capabilities[l].voucher \in memberDevices[i]
               /\ capabilities'[l].state # "live"]_vars

\* A session that must enrol its device is freed of it only when its device is one of
\* the member's, or when its socket is gone.
PendingUntilEnrolled ==
    [][\A s \in pending \ pending' :
           status'[s] = "open" => IsAuthorizedDevice(identity[s], device[s])']_vars

\* What the maps and counters of the gateway hold is what its sockets are.
SessionsCounted == TypeOK /\ CountersExact

\* A community keeps an owner, and keeps out whom it banned.
MembershipHolds == OwnerExists /\ BannedAreOut

\* A new device comes to a member only through a device the member has, and a session
\* opened for one stays bound to that.
DevicesAreVouched == EnrolledWasVouched /\ PendingUntilEnrolled
=============================================================================
