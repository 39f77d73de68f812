------------------------------ MODULE Community ------------------------------
(***************************************************************************)
(* The community a JanjaNode keeps in its database                         *)
(* (apps/janjanode/src/server.service.ts): members and their roles, bans,  *)
(* devices, invites, device-link capabilities, channels, and the call      *)
(* participants and presence that go with them.                            *)
(*                                                                         *)
(* One action per operation, for the identity (and the device) the gateway *)
(* says is asking.  An operation that answers `fail(...)` changes nothing  *)
(* and has no action; an operation that throws has one of its own, because *)
(* nothing between it and the socket catches.                              *)
(***************************************************************************)
EXTENDS Permissions, FiniteSets

CONSTANTS
    Identities, Founder,   \* Founder created the community
    Devices, FounderDevice,
    CustomRoles,           \* ids roleCreate may hand out
    CustomRoleChoices,     \* the [level, permissions] asked for
    Channels,              \* ids channelCreate may hand out, all of type call
    Invites,               \* ids inviteCreate may hand out
    FirstInvites,          \* the invites handed out so far when the model starts
    Links,                 \* ids of device-link capabilities
    MaxLinks,              \* live capabilities an identity may have (8)
    VoiceLimits,           \* values of maxVoiceParticipants
    DefaultVoiceLimit,     \* the one a community is created with (10)
    MaxOps,                \* bound: entries of op_log
    None                   \* no row

ASSUME CommunityAssumption ==
    /\ Founder \in Identities
    /\ FounderDevice \in Devices
    /\ CustomRoles \cap DOMAIN BuiltInRoles = {}
    /\ CustomRoleChoices \subseteq [level: 0..(OwnerLevel - 1), permissions: SUBSET Flags]
    /\ IsFiniteSet(Identities) /\ IsFiniteSet(Links)
    /\ {MaxLinks, MaxOps} \subseteq Nat
    /\ DefaultVoiceLimit \in VoiceLimits /\ VoiceLimits \subseteq Nat \ {0}

RoleIds == DOMAIN BuiltInRoles \cup CustomRoles

ASSUME NoneAssumption == None \notin RoleIds \cup Identities

VARIABLES
    members,        \* [Identities -> RoleIds \cup {None}]
    bans,           \* SUBSET Identities
    memberDevices,  \* [Identities -> SUBSET Devices]; a row is never revoked
    roles,          \* the roles that exist, by id
    channels,       \* the channels that exist, by id: [RoleIds -> override]
    invites,        \* the invites that exist, by id
    capabilities,   \* the device-link capabilities that exist, by id
    voiceLimit,     \* config.maxVoiceParticipants
    opLog,          \* length of op_log
    presence,       \* [Identities -> state], of the members row
    calls           \* in memory: [Channels -> SUBSET Identities]

\* What op_log is about, what is stored besides, what is not stored.
loggedTables  == <<members, bans, memberDevices, roles, channels, invites, voiceLimit>>
tables        == <<loggedTables, capabilities, presence>>
communityVars == <<tables, opLog, calls>>

Override == [allow: SUBSET {"join_call"}, deny: SUBSET {"join_call"}]
Invite   == [role: RoleIds, max: Nat, used: Nat, expired: BOOLEAN, revoked: BOOLEAN,
             known: BOOLEAN]   \* known: the key was encoded and handed out
Link     == [identity: Identities, device: Devices, voucher: Devices,
             state: {"live", "expired", "consumed"}]
PresenceState == {"online", "offline", "in_call"}

\* An invite was for a role that existed when it was created, as InviteCreate has it.
ASSUME FirstInvitesAssumption ==
    /\ DOMAIN FirstInvites \subseteq Invites
    /\ \A id \in DOMAIN FirstInvites :
          /\ FirstInvites[id] \in Invite /\ FirstInvites[id].role \in DOMAIN BuiltInRoles
          /\ FirstInvites[id].used <= FirstInvites[id].max

IsMember(i)  == members[i] # None
RoleOf(i)    == roles[members[i]]
HoldsOwner(i) == members[i] = "role-owner"
May(i, permission) == IsMember(i) /\ EvaluatePermission(RoleOf(i), NoOverride, permission)
IsAuthorizedDevice(i, d) == d \in memberDevices[i]

CommunityInit ==
    /\ members = [i \in Identities |-> IF i = Founder THEN "role-owner" ELSE None]
    /\ bans = {}
    /\ memberDevices = [i \in Identities |-> IF i = Founder THEN {FounderDevice} ELSE {}]
    /\ roles = BuiltInRoles
    /\ channels = <<>> /\ invites = FirstInvites /\ capabilities = <<>>
    /\ voiceLimit = DefaultVoiceLimit
    /\ opLog = 0
    /\ presence = [i \in Identities |-> "offline"]
    /\ calls = [c \in Channels |-> {}]

AppendOp == opLog < MaxOps /\ opLog' = opLog + 1

Put(table, id, row) == [x \in DOMAIN table \cup {id} |-> IF x = id THEN row ELSE table[x]]
Rows(table, ids)    == [x \in ids |-> table[x]]

(***************************************************************************)
(* Membership.                                                             *)
(***************************************************************************)
Usable(inv) == ~inv.revoked /\ ~inv.expired /\ inv.used < inv.max

\* deviation: bans are not looked at
MayJoinBanned(i, id) ==
    /\ ~IsMember(i)
    /\ id \in DOMAIN invites /\ invites[id].known
    /\ Usable(invites[id])

\* The guards of joinByInvite, before its transaction.
MayJoin(i, id) ==
    /\ ~IsMember(i)
    /\ i \notin bans
    /\ id \in DOMAIN invites /\ invites[id].known
    /\ Usable(invites[id])

JoinByInvite(i, d, id) ==
    /\ MayJoin(i, id)
    /\ d \notin memberDevices[i]
    /\ AppendOp
    /\ invites' = [invites EXCEPT ![id].used = @ + 1]
    /\ members' = [members EXCEPT ![i] = invites[id].role]
    /\ presence' = [presence EXCEPT ![i] = "offline"]
    /\ memberDevices' = [memberDevices EXCEPT ![i] = @ \cup {d}]
    /\ UNCHANGED <<bans, roles, channels, capabilities, voiceLimit, calls>>

\* The device row is still there from an earlier membership: the INSERT violates
\* its key, the transaction is rolled back and the exception leaves the gateway.
JoinThrows(i, d, id) == MayJoin(i, id) /\ d \in memberDevices[i]

\* DELETE FROM members: only the row of members goes.
RemoveMember(i) ==
    /\ members' = [members EXCEPT ![i] = None]
    /\ presence' = [presence EXCEPT ![i] = "offline"]

Leave(i) ==
    /\ IsMember(i) /\ ~HoldsOwner(i)
    /\ AppendOp
    /\ RemoveMember(i)
    /\ UNCHANGED <<bans, memberDevices, roles, channels, invites, capabilities, voiceLimit, calls>>

TransferOwnership(i, to) ==
    /\ HoldsOwner(i) /\ IsMember(to)
    /\ AppendOp
    /\ members' = [members EXCEPT ![i] = "role-member", ![to] = "role-owner"]
    /\ UNCHANGED <<bans, memberDevices, roles, channels, invites, capabilities, voiceLimit,
                   presence, calls>>

Kick(i, target) ==
    /\ IsMember(i) /\ IsMember(target)
    /\ CanModify(RoleOf(i), RoleOf(target), "kick_members")
    /\ AppendOp
    /\ RemoveMember(target)
    /\ UNCHANGED <<bans, memberDevices, roles, channels, invites, capabilities, voiceLimit, calls>>

Ban(i, target) ==
    /\ IsMember(i) /\ IsMember(target)
    /\ CanModify(RoleOf(i), RoleOf(target), "ban_members")
    /\ AppendOp
    /\ RemoveMember(target)
    /\ bans' = bans \cup {target}
    /\ UNCHANGED <<memberDevices, roles, channels, invites, capabilities, voiceLimit, calls>>

(***************************************************************************)
(* Roles.  getRole hands out the row of the table, whose permissions are   *)
(* still the JSON text: `includes` finds a flag in it, `some` is not a     *)
(* method of a string.                                                     *)
(***************************************************************************)
RoleCreate(i, id, role) ==
    /\ May(i, "manage_roles")
    /\ id \notin DOMAIN roles
    /\ \/ HoldsOwner(i)
       \/ /\ role.level < RoleOf(i).level
          /\ role.permissions \subseteq RoleOf(i).permissions \ {"manage_hosts"}
    /\ AppendOp
    /\ roles' = Put(roles, id, role)
    /\ UNCHANGED <<members, bans, memberDevices, channels, invites, capabilities, voiceLimit,
                   presence, calls>>

MayAssign(i, target, id) ==
    /\ IsMember(i) /\ IsMember(target)
    /\ CanModify(RoleOf(i), RoleOf(target), "assign_roles")
    /\ id \in DOMAIN roles

RoleAssign(i, target, id) ==
    /\ MayAssign(i, target, id) /\ HoldsOwner(i)
    /\ AppendOp
    /\ members' = [members EXCEPT ![target] = id]
    /\ UNCHANGED <<bans, memberDevices, roles, channels, invites, capabilities, voiceLimit,
                   presence, calls>>

\* Not the owner, and a role below its own: newRole.permissions.some throws.
RoleAssignThrows(i, target, id) ==
    /\ MayAssign(i, target, id) /\ ~HoldsOwner(i)
    /\ roles[id].level < RoleOf(i).level

(***************************************************************************)
(* Configuration, channels and invites.                                    *)
(***************************************************************************)
UpdateConfig(i, limit) ==
    /\ May(i, "manage_server")
    /\ AppendOp
    /\ voiceLimit' = limit
    /\ UNCHANGED <<members, bans, memberDevices, roles, channels, invites, capabilities,
                   presence, calls>>

ChannelCreate(i, c) ==
    /\ May(i, "manage_channels")
    /\ c \notin DOMAIN channels
    /\ AppendOp
    /\ channels' = Put(channels, c, [r \in RoleIds |-> NoOverride])
    /\ UNCHANGED <<members, bans, memberDevices, roles, invites, capabilities, voiceLimit,
                   presence, calls>>

\* The list of overrides is replaced as a whole.
ChannelUpdateOverrides(i, c, role, override) ==
    /\ May(i, "manage_channels")
    /\ c \in DOMAIN channels
    /\ AppendOp
    /\ channels' = [channels EXCEPT ![c] =
                        [r \in RoleIds |-> IF r = role THEN override ELSE NoOverride]]
    /\ UNCHANGED <<members, bans, memberDevices, roles, invites, capabilities, voiceLimit,
                   presence, calls>>

\* The row is inserted and logged before the key is encoded: when no hint fits,
\* the invite exists and nobody knows its key.
InviteCreate(i, id, role, max, known) ==
    /\ May(i, "manage_invites")
    /\ role \in DOMAIN roles
    /\ id \notin DOMAIN invites
    /\ AppendOp
    /\ invites' = Put(invites, id, [role |-> role, max |-> max, used |-> 0, expired |-> FALSE,
                                    revoked |-> FALSE, known |-> known])
    /\ UNCHANGED <<members, bans, memberDevices, roles, channels, capabilities, voiceLimit,
                   presence, calls>>

InviteRevoke(i, id) ==
    /\ May(i, "manage_invites")
    /\ id \in DOMAIN invites
    /\ AppendOp
    /\ invites' = [invites EXCEPT ![id].revoked = TRUE]
    /\ UNCHANGED <<members, bans, memberDevices, roles, channels, capabilities, voiceLimit,
                   presence, calls>>

\* The clock passes expires_at.
InviteExpires(id) ==
    /\ id \in DOMAIN invites /\ ~invites[id].expired
    /\ invites' = [invites EXCEPT ![id].expired = TRUE]
    /\ UNCHANGED <<members, bans, memberDevices, roles, channels, capabilities, voiceLimit,
                   opLog, presence, calls>>

(***************************************************************************)
(* Devices.  authorizeDeviceLink is not logged.                            *)
(***************************************************************************)
LiveLinks(i) == {l \in DOMAIN capabilities :
                    capabilities[l].state = "live" /\ capabilities[l].identity = i}

AuthorizeDeviceLink(i, d, new, id) ==
    LET kept == {l \in DOMAIN capabilities : capabilities[l].state = "live"}
    IN  /\ IsMember(i)
        /\ IsAuthorizedDevice(i, d) /\ ~IsAuthorizedDevice(i, new)
        /\ Cardinality(LiveLinks(i)) < MaxLinks
        /\ id \notin kept
        /\ capabilities' = Put(Rows(capabilities, kept), id,
               [identity |-> i, device |-> new, voucher |-> d, state |-> "live"])
        /\ UNCHANGED <<loggedTables, opLog, presence, calls>>

\* deviation: a capability is good for whichever identity presents it
EnrollAnyone(i, d, id) ==
    /\ IsMember(i)
    /\ id \in UNION {LiveLinks(j) : j \in Identities} /\ capabilities[id].device = d
    /\ d \notin memberDevices[i]
    /\ AppendOp
    /\ capabilities' = [capabilities EXCEPT ![id].state = "consumed"]
    /\ memberDevices' = [memberDevices EXCEPT ![i] = @ \cup {d}]
    /\ UNCHANGED <<members, bans, roles, channels, invites, voiceLimit, presence, calls>>

EnrollDevice(i, d, id) ==
    /\ IsMember(i)
    /\ id \in LiveLinks(i) /\ capabilities[id].device = d
    /\ d \notin memberDevices[i]       \* else the transaction is rolled back
    /\ AppendOp
    /\ capabilities' = [capabilities EXCEPT ![id].state = "consumed"]
    /\ memberDevices' = [memberDevices EXCEPT ![i] = @ \cup {d}]
    /\ UNCHANGED <<members, bans, roles, channels, invites, voiceLimit, presence, calls>>

LinkExpires(id) ==
    /\ id \in DOMAIN capabilities /\ capabilities[id].state = "live"
    /\ capabilities' = [capabilities EXCEPT ![id].state = "expired"]
    /\ UNCHANGED <<loggedTables, opLog, presence, calls>>

(***************************************************************************)
(* Calls and presence.                                                     *)
(***************************************************************************)
MayJoinCall(i, c) ==
    /\ IsMember(i)
    /\ c \in DOMAIN channels
    /\ EvaluatePermission(RoleOf(i), channels[c][members[i]], "join_call")

CallJoin(i, c) ==
    /\ MayJoinCall(i, c)
    /\ i \in calls[c] \/ Cardinality(calls[c]) < voiceLimit
    /\ calls' = [calls EXCEPT ![c] = @ \cup {i}]
    /\ UNCHANGED <<tables, opLog>>

\* callLeave asks for no membership.
CallLeave(i, c) ==
    /\ calls' = [calls EXCEPT ![c] = @ \ {i}]
    /\ UNCHANGED <<tables, opLog>>

SetPresence(i, state) ==
    /\ presence' = IF IsMember(i) THEN [presence EXCEPT ![i] = state] ELSE presence
    /\ UNCHANGED <<loggedTables, capabilities, opLog, calls>>
=============================================================================
