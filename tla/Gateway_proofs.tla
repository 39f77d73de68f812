---------------------------- MODULE Gateway_proofs ----------------------------
(***************************************************************************)
(* A community keeps an owner, its owners are never deposed, and whom it   *)
(* banned stays out: for any identities, roles, invites and sockets.       *)
(*                                                                         *)
(* The argument: the level of role-owner is OwnerLevel and stays so, for   *)
(* a role is created under an id of its own and never changed.  CanModify  *)
(* is therefore false of a target that holds role-owner, whoever asks, and *)
(* a kick, a ban or an assignment leaves every owner in place.             *)
(***************************************************************************)
EXTENDS Gateway, FiniteSetTheorems, TLAPS

RolesTyped ==
    /\ DOMAIN BuiltInRoles \subseteq DOMAIN roles /\ DOMAIN roles \subseteq RoleIds
    /\ \A r \in DOMAIN roles : roles[r].level \in Nat
    /\ roles["role-owner"].level = OwnerLevel

InvitesTyped ==
    \A id \in DOMAIN invites :
        invites[id] \in Invite /\ invites[id].role \in DOMAIN roles

MembersTyped ==
    /\ members \in [Identities -> RoleIds \cup {None}]
    /\ \A i \in Identities : IsMember(i) => members[i] \in DOMAIN roles
    /\ bans \subseteq Identities

MemberInv == RolesTyped /\ InvitesTyped /\ MembersTyped /\ OwnerExists /\ BannedAreOut

\* Every owner but i still is one.
OthersStayOwners(i) == \A k \in Identities : k # i /\ HoldsOwner(k) => HoldsOwner(k)'

LEMMA BuiltIn ==
    /\ {"role-owner", "role-member"} \subseteq DOMAIN BuiltInRoles
    /\ \A r \in DOMAIN BuiltInRoles : BuiltInRoles[r].level \in Nat
    /\ BuiltInRoles["role-owner"].level = OwnerLevel
    /\ None \notin RoleIds
BY NoneAssumption DEF BuiltInRoles, OwnerLevel

LEMMA InitMemberInv == Init => MemberInv
<1> SUFFICES ASSUME Init PROVE MemberInv
  OBVIOUS
<1> USE DEF Init, CommunityInit
<1>1. RolesTyped
  BY BuiltIn DEF RolesTyped, RoleIds
<1>2. InvitesTyped
  BY FirstInvitesAssumption DEF InvitesTyped
<1>3. MembersTyped
  BY BuiltIn DEF MembersTyped, IsMember, RoleIds
<1>4. OwnerExists /\ BannedAreOut
  BY CommunityAssumption DEF OwnerExists, HoldsOwner, BannedAreOut
<1> QED BY <1>1, <1>2, <1>3, <1>4 DEF MemberInv

\* Nobody may modify an owner.
LEMMA OwnersAreBeyond ==
    ASSUME RolesTyped, MembersTyped, NEW i, NEW t \in Identities, NEW permission,
           members[i] \in DOMAIN roles, IsMember(t),
           CanModify(RoleOf(i), RoleOf(t), permission)
    PROVE  ~HoldsOwner(t)
<1> SUFFICES ASSUME HoldsOwner(t) PROVE FALSE
  OBVIOUS
<1>1. RoleOf(t).level = OwnerLevel /\ RoleOf(i).level \in Nat
  BY DEF RolesTyped, RoleOf, HoldsOwner
<1> QED BY <1>1 DEF CanModify, IsOwner, OwnerLevel

\* An operation that leaves members, bans, roles and invites alone.
LEMMA ElsewhereSteps ==
    ASSUME MemberInv, UNCHANGED <<members, bans, roles, invites>>
    PROVE  MemberInv' /\ \A i : OthersStayOwners(i)
<1>1. RolesTyped' /\ InvitesTyped' /\ MembersTyped'
  BY DEF MemberInv, RolesTyped, InvitesTyped, MembersTyped, IsMember
<1>2. OwnerExists' /\ BannedAreOut' /\ \A i : OthersStayOwners(i)
  BY DEF MemberInv, OwnerExists, BannedAreOut, HoldsOwner, IsMember, OthersStayOwners
<1> QED BY <1>1, <1>2 DEF MemberInv

(***************************************************************************)
(* Steps that change who is a member, or with which role.                  *)
(***************************************************************************)
LEMMA JoinSteps ==
    ASSUME MemberInv, NEW i \in Identities, NEW d, NEW id, JoinByInvite(i, d, id)
    PROVE  MemberInv' /\ OthersStayOwners(i)
<1> USE DEF JoinByInvite, MayJoin, MemberInv
<1>1. id \in DOMAIN invites /\ invites[id] \in Invite /\ invites[id].role \in DOMAIN roles
  BY DEF InvitesTyped
<1>2. RolesTyped'
  BY DEF RolesTyped
<1>3. InvitesTyped'
  <2>1. invites' = [invites EXCEPT ![id] = [invites[id] EXCEPT !.used = invites[id].used + 1]]
    OBVIOUS
  <2>2. [invites[id] EXCEPT !.used = invites[id].used + 1] \in Invite
        /\ [invites[id] EXCEPT !.used = invites[id].used + 1].role = invites[id].role
    BY <1>1 DEF Invite
  <2> QED BY <1>1, <2>1, <2>2 DEF InvitesTyped
<1>4. MembersTyped'
  BY <1>1 DEF MembersTyped, RolesTyped, IsMember
<1>5. OwnerExists' /\ OthersStayOwners(i)
  <2>1. ~HoldsOwner(i)
    BY BuiltIn DEF IsMember, HoldsOwner, RoleIds
  <2> QED BY <2>1 DEF OwnerExists, HoldsOwner, OthersStayOwners, MembersTyped
<1>6. BannedAreOut'
  BY DEF BannedAreOut, IsMember, MembersTyped
<1> QED BY <1>2, <1>3, <1>4, <1>5, <1>6

\* t leaves, is kicked, or is banned.
LEMMA RemovalSteps ==
    ASSUME MemberInv, NEW t \in Identities, ~HoldsOwner(t), RemoveMember(t),
           UNCHANGED <<roles, invites>>, bans' \in {bans, bans \cup {t}}
    PROVE  MemberInv' /\ \A i : OthersStayOwners(i)
<1> USE DEF RemoveMember, MemberInv
<1>1. RolesTyped' /\ InvitesTyped'
  BY DEF RolesTyped, InvitesTyped
<1>2. MembersTyped'
  BY DEF MembersTyped, IsMember
<1>3. OwnerExists' /\ \A i : OthersStayOwners(i)
  BY DEF OwnerExists, HoldsOwner, OthersStayOwners, MembersTyped
<1>4. BannedAreOut'
  BY DEF BannedAreOut, IsMember, MembersTyped
<1> QED BY <1>1, <1>2, <1>3, <1>4

LEMMA TransferSteps ==
    ASSUME MemberInv, NEW i \in Identities, NEW to \in Identities, TransferOwnership(i, to)
    PROVE  MemberInv' /\ OthersStayOwners(i)
<1> USE DEF TransferOwnership, MemberInv
<1>1. members' = [members EXCEPT ![i] = "role-member", ![to] = "role-owner"]
      /\ IsMember(i) /\ IsMember(to)
  BY BuiltIn DEF HoldsOwner, IsMember, RoleIds
<1>2. RolesTyped' /\ InvitesTyped'
  BY DEF RolesTyped, InvitesTyped
<1>3. MembersTyped'
  BY <1>1, BuiltIn DEF MembersTyped, IsMember, RolesTyped, RoleIds
<1>4. OwnerExists' /\ OthersStayOwners(i)
  BY <1>1 DEF OwnerExists, HoldsOwner, OthersStayOwners, MembersTyped
<1>5. BannedAreOut'
  BY <1>1 DEF BannedAreOut, IsMember, MembersTyped
<1> QED BY <1>2, <1>3, <1>4, <1>5

LEMMA AssignSteps ==
    ASSUME MemberInv, NEW i \in Identities, NEW t \in Identities, NEW id, RoleAssign(i, t, id)
    PROVE  MemberInv' /\ OthersStayOwners(i)
<1> USE DEF RoleAssign, MayAssign, MemberInv
<1>1. ~HoldsOwner(t)
  BY OwnersAreBeyond DEF MembersTyped
<1>2. RolesTyped' /\ InvitesTyped'
  BY DEF RolesTyped, InvitesTyped
<1>3. MembersTyped'
  BY DEF MembersTyped, IsMember, RolesTyped
<1>4. OwnerExists' /\ OthersStayOwners(i)
  BY <1>1 DEF OwnerExists, HoldsOwner, OthersStayOwners, MembersTyped
<1>5. BannedAreOut'
  BY DEF BannedAreOut, IsMember, MembersTyped
<1> QED BY <1>2, <1>3, <1>4, <1>5

(***************************************************************************)
(* Steps that add a role or change an invite.                              *)
(***************************************************************************)
LEMMA RoleCreateSteps ==
    ASSUME MemberInv, NEW i, NEW id \in CustomRoles, NEW role \in CustomRoleChoices,
           RoleCreate(i, id, role)
    PROVE  MemberInv' /\ OthersStayOwners(i)
<1> USE DEF RoleCreate, MemberInv
<1>1. /\ roles' = Put(roles, id, role) /\ id \notin DOMAIN roles
      /\ DOMAIN roles' = DOMAIN roles \cup {id}
      /\ \A r \in DOMAIN roles : roles'[r] = roles[r]
      /\ roles'[id].level \in Nat
  BY CommunityAssumption DEF Put, OwnerLevel
<1>2. RolesTyped'
  BY <1>1, BuiltIn DEF RolesTyped, RoleIds
<1>3. InvitesTyped' /\ MembersTyped'
  BY <1>1 DEF InvitesTyped, MembersTyped, IsMember
<1>4. OwnerExists' /\ BannedAreOut' /\ OthersStayOwners(i)
  BY DEF OwnerExists, BannedAreOut, HoldsOwner, IsMember, OthersStayOwners
<1> QED BY <1>2, <1>3, <1>4

\* An operation on invites alone, all of them valid afterwards.
LEMMA InviteSteps ==
    ASSUME MemberInv, UNCHANGED <<members, bans, roles>>, InvitesTyped'
    PROVE  MemberInv' /\ \A i : OthersStayOwners(i)
<1>1. RolesTyped' /\ MembersTyped'
  BY DEF MemberInv, RolesTyped, MembersTyped, IsMember
<1>2. OwnerExists' /\ BannedAreOut' /\ \A i : OthersStayOwners(i)
  BY DEF MemberInv, OwnerExists, BannedAreOut, HoldsOwner, IsMember, OthersStayOwners
<1> QED BY <1>1, <1>2 DEF MemberInv

LEMMA InviteCreateSteps ==
    ASSUME MemberInv, NEW i, NEW id, NEW r \in NamedRoles, NEW n \in UsesOffered,
           NEW known \in BOOLEAN, InviteCreate(i, id, r, n, known)
    PROVE  InvitesTyped'
<1> DEFINE row == [role |-> r, max |-> n, used |-> 0, expired |-> FALSE, revoked |-> FALSE,
                   known |-> known]
<1>1. row \in Invite /\ row.role \in DOMAIN roles
  BY GatewayAssumption DEF MemberInv, RolesTyped, InviteCreate, Invite
<1>2. invites' = Put(invites, id, row) /\ UNCHANGED roles
  BY DEF InviteCreate
<1> HIDE DEF row
<1> QED BY <1>1, <1>2 DEF MemberInv, InvitesTyped, Put

LEMMA InviteRevokeSteps ==
    ASSUME MemberInv, NEW i, NEW id, InviteRevoke(i, id)
    PROVE  InvitesTyped'
<1>1. invites[id] \in Invite /\ invites[id].role \in DOMAIN roles /\ UNCHANGED roles
  BY DEF MemberInv, InvitesTyped, InviteRevoke
<1>2. invites' = [invites EXCEPT ![id] = [invites[id] EXCEPT !.revoked = TRUE]]
  BY DEF InviteRevoke
<1>3. [invites[id] EXCEPT !.revoked = TRUE] \in Invite
      /\ [invites[id] EXCEPT !.revoked = TRUE].role = invites[id].role
  BY <1>1 DEF Invite
<1> QED BY <1>1, <1>2, <1>3 DEF MemberInv, InvitesTyped

LEMMA InviteExpiresSteps ==
    ASSUME MemberInv, NEW id, InviteExpires(id)
    PROVE  InvitesTyped'
<1>1. invites[id] \in Invite /\ invites[id].role \in DOMAIN roles /\ UNCHANGED roles
  BY DEF MemberInv, InvitesTyped, InviteExpires
<1>2. invites' = [invites EXCEPT ![id] = [invites[id] EXCEPT !.expired = TRUE]]
  BY DEF InviteExpires
<1>3. [invites[id] EXCEPT !.expired = TRUE] \in Invite
      /\ [invites[id] EXCEPT !.expired = TRUE].role = invites[id].role
  BY <1>1 DEF Invite
<1> QED BY <1>1, <1>2, <1>3 DEF MemberInv, InvitesTyped

(***************************************************************************)
(* A command, of the identity of its session.                              *)
(***************************************************************************)
LEMMA CommandSteps ==
    ASSUME MemberInv, NEW s \in Sockets, identity[s] \in Identities, Command(s)
    PROVE  MemberInv' /\ OthersStayOwners(identity[s])
<1> DEFINE i == identity[s]
           d == device[s]
<1> SUFFICES MemberInv' /\ OthersStayOwners(i)
  OBVIOUS
<1>i. i \in Identities
  OBVIOUS
<1>1. CASE \E id \in Invites : JoinByInvite(i, d, id)
  BY <1>1, <1>i, JoinSteps
<1>2. CASE Leave(i)
  BY <1>2, <1>i, RemovalSteps DEF Leave
<1>3. CASE \E j \in Identities : TransferOwnership(i, j)
  BY <1>3, <1>i, TransferSteps
<1>4. CASE \E j \in Identities : Kick(i, j) \/ Ban(i, j)
  <2>1. PICK j \in Identities : Kick(i, j) \/ Ban(i, j)
    BY <1>4
  <2>2. ~HoldsOwner(j)
    <3>1. members[i] \in DOMAIN roles /\ IsMember(j)
      BY <2>1, <1>i DEF Kick, Ban, MemberInv, MembersTyped
    <3>2. \E p : CanModify(RoleOf(i), RoleOf(j), p)
      BY <2>1 DEF Kick, Ban
    <3> QED BY <3>1, <3>2, OwnersAreBeyond DEF MemberInv
  <2>3. /\ RemoveMember(j) /\ UNCHANGED <<roles, invites>>
        /\ bans' \in {bans, bans \cup {j}}
    BY <2>1 DEF Kick, Ban
  <2> QED BY <2>2, <2>3, RemovalSteps
<1>5. CASE \E j \in Identities, r \in NamedRoles : RoleAssign(i, j, r)
  BY <1>5, <1>i, AssignSteps
<1>6. CASE \E r \in CustomRoles, role \in CustomRoleChoices : RoleCreate(i, r, role)
  BY <1>6, RoleCreateSteps
<1>7. CASE \E id \in Invites, r \in NamedRoles, n \in UsesOffered, known \in BOOLEAN :
               InviteCreate(i, id, r, n, known)
  <2>1. InvitesTyped'
    BY <1>7, InviteCreateSteps
  <2> QED BY <1>7, <2>1, InviteSteps DEF InviteCreate
<1>8. CASE \E id \in Invites : InviteRevoke(i, id)
  <2>1. InvitesTyped'
    BY <1>8, InviteRevokeSteps
  <2> QED BY <1>8, <2>1, InviteSteps DEF InviteRevoke
<1>9. CASE \/ \E n \in VoiceLimits : UpdateConfig(i, n)
           \/ \E c \in Channels : ChannelCreate(i, c)
           \/ \E c \in Channels, r \in NamedRoles, o \in NamedOverrides :
                  ChannelUpdateOverrides(i, c, r, o)
           \/ \E new \in Devices, l \in Links : AuthorizeDeviceLink(i, d, new, l)
           \/ \E c \in Channels : CallJoin(i, c) \/ CallLeave(i, c)
           \/ \E state \in PresenceChoices : SetPresence(i, state)
  <2>1. UNCHANGED <<members, bans, roles, invites>>
    BY <1>9 DEF UpdateConfig, ChannelCreate, ChannelUpdateOverrides, AuthorizeDeviceLink,
                CallJoin, CallLeave, SetPresence, tables, loggedTables
  <2> QED BY <2>1, ElsewhereSteps
<1> QED
  BY <1>1, <1>2, <1>3, <1>4, <1>5, <1>6, <1>7, <1>8, <1>9 DEF Command

(***************************************************************************)
(* The gateway.                                                            *)
(***************************************************************************)
SessionsTyped == identity \in [Sockets -> Identities \cup {None}]

\* Who stops being an owner does so in a command of its own.
DeposedByItself ==
    \A i \in Identities : HoldsOwner(i) /\ ~HoldsOwner(i)' =>
        \E s \in Sockets : MayWrite(s) /\ identity[s] = i

LEMMA CommandsDepose ==
    ASSUME MemberInv, SessionsTyped, NEW s \in Sockets, Command(s)
    PROVE  MemberInv' /\ DeposedByItself
<1>1. MayWrite(s) /\ identity[s] \in Identities
  BY DEF Command, MayWrite, MayCommand, Session, SessionsTyped
<1>2. MemberInv' /\ OthersStayOwners(identity[s])
  BY <1>1, CommandSteps
<1> QED BY <1>1, <1>2 DEF DeposedByItself, OthersStayOwners

LEMMA NobodyDeposed ==
    ASSUME MemberInv', \A i : OthersStayOwners(i)
    PROVE  MemberInv' /\ DeposedByItself
<1> SUFFICES ASSUME NEW k \in Identities, HoldsOwner(k) PROVE HoldsOwner(k)'
  BY DEF DeposedByItself
<1>1. OthersStayOwners(None) /\ k # None
  BY NoneAssumption
<1> QED BY <1>1 DEF OthersStayOwners

LEMMA MemberStep ==
    ASSUME MemberInv, SessionsTyped, [Next]_vars
    PROVE  MemberInv' /\ DeposedByItself
<1>1. ASSUME UNCHANGED <<members, bans, roles, invites>> PROVE MemberInv' /\ DeposedByItself
  BY <1>1, ElsewhereSteps, NobodyDeposed
<1> USE DEF communityVars, tables, loggedTables
<1>2. CASE UNCHANGED vars
  BY <1>2, <1>1 DEF vars
<1>3. CASE \E s \in Sockets, o \in Origins : Connect(s, o)
  BY <1>3, <1>1 DEF Connect
<1>4. CASE \E s \in Sockets, i \in Identities, d \in Devices : AuthProve(s, i, d)
  BY <1>4, <1>1 DEF AuthProve
<1>5. CASE \E s \in Sockets : Disconnect(s) \/ AuthBegin(s) \/ AuthRejected(s) \/ Hello(s)
  BY <1>5, <1>1 DEF Disconnect, AuthBegin, AuthRejected, Hello, SetPresence
<1>6. CASE \E s \in Sockets : Command(s)
  BY <1>6, CommandsDepose
<1>7. CASE \E s \in Sockets : Enroll(s)
  BY <1>7, <1>1 DEF Enroll, EnrollDevice
<1>8. CASE \E s \in Sockets : CommandThrows(s)
  BY <1>8, <1>1 DEF CommandThrows, Stop
<1>9. CASE \E id \in Invites : InviteExpires(id) /\ UNCHANGED gatewayVars
  <2>1. InvitesTyped' /\ UNCHANGED <<members, bans, roles>>
    BY <1>9, InviteExpiresSteps DEF InviteExpires
  <2> QED BY <2>1, InviteSteps, NobodyDeposed
<1>10. CASE \E l \in Links : LinkExpires(l) /\ UNCHANGED gatewayVars
  BY <1>10, <1>1 DEF LinkExpires
<1>11. CASE Restart \/ WriterChanges
  BY <1>11, <1>1 DEF Restart, WriterChanges
<1> QED
  BY <1>2, <1>3, <1>4, <1>5, <1>6, <1>7, <1>8, <1>9, <1>10, <1>11 DEF Next

LEMMA SessionStep ==
    ASSUME SessionsTyped, [Next]_vars
    PROVE  SessionsTyped'
<1> USE DEF SessionsTyped
<1>1. CASE UNCHANGED identity
  BY <1>1
<1>2. CASE \E s \in Sockets, i \in Identities, d \in Devices : AuthProve(s, i, d)
  BY <1>2 DEF AuthProve
<1>3. CASE \E s \in Sockets : Disconnect(s)
  BY <1>3 DEF Disconnect
<1>4. CASE \E s \in Sockets : CommandThrows(s)
  BY <1>4 DEF CommandThrows, Stop
<1>5. CASE \E s \in Sockets : AuthBegin(s) \/ AuthRejected(s) \/ Hello(s) \/ Command(s) \/ Enroll(s)
  BY <1>1, <1>5 DEF AuthBegin, AuthRejected, Hello, Command, Enroll, gatewayVars, sessionVars
<1>6. CASE \E s \in Sockets, o \in Origins : Connect(s, o)
  BY <1>1, <1>6 DEF Connect, sessionVars
<1>7. CASE \/ \E id \in Invites : InviteExpires(id) /\ UNCHANGED gatewayVars
           \/ \E l \in Links : LinkExpires(l) /\ UNCHANGED gatewayVars
           \/ Restart \/ WriterChanges \/ UNCHANGED vars
  BY <1>1, <1>7 DEF Restart, WriterChanges, vars, gatewayVars, sessionVars
<1> QED
  BY <1>2, <1>3, <1>4, <1>5, <1>6, <1>7 DEF Next

LEMMA GatewaySafe == Spec => [](MemberInv /\ SessionsTyped)
<1>1. Init => MemberInv /\ SessionsTyped
  BY InitMemberInv DEF Init, SessionsTyped
<1>2. MemberInv /\ SessionsTyped /\ [Next]_vars => (MemberInv /\ SessionsTyped)'
  BY MemberStep, SessionStep
<1> QED BY <1>1, <1>2, PTL DEF Spec

(***************************************************************************)
(* The rest of the tables.  A live capability was issued by a device its   *)
(* identity still has, for devices are only ever added.                    *)
(***************************************************************************)
LinksTyped ==
    /\ memberDevices \in [Identities -> SUBSET Devices]
    /\ DOMAIN capabilities \subseteq Links
    /\ \A l \in DOMAIN capabilities : capabilities[l] \in Link
    /\ \A i \in Identities : Cardinality(LiveLinks(i)) <= MaxLinks
    /\ \A l \in DOMAIN capabilities : capabilities[l].state = "live" =>
           capabilities[l].voucher \in memberDevices[capabilities[l].identity]

\* The action EnrolledWasVouched is about.
Vouched ==
    \A i \in Identities : \A d \in memberDevices'[i] \ memberDevices[i] : IsMember(i) =>
        \E l \in LiveLinks(i) :
            /\ capabilities[l].device = d
            /\ capabilities[l].voucher \in memberDevices[i]
            /\ capabilities'[l].state # "live"

LEMMA LiveLinksFinite ==
    ASSUME LinksTyped, NEW i
    PROVE  IsFiniteSet(LiveLinks(i)) /\ Cardinality(LiveLinks(i)) \in Nat
<1>1. IsFiniteSet(Links) /\ LiveLinks(i) \in SUBSET Links
  BY CommunityAssumption DEF LiveLinks, LinksTyped
<1>2. IsFiniteSet(LiveLinks(i))
  BY <1>1, FS_Subset
<1> QED BY <1>2, FS_CardinalityType

\* Fewer live capabilities of an identity are still few enough.
LEMMA FewerLinks ==
    ASSUME LinksTyped, \A i \in Identities : LiveLinks(i)' \subseteq LiveLinks(i)
    PROVE  \A i \in Identities : Cardinality(LiveLinks(i)') <= MaxLinks
<1> SUFFICES ASSUME NEW i \in Identities PROVE Cardinality(LiveLinks(i)') <= MaxLinks
  OBVIOUS
<1> DEFINE before == LiveLinks(i)
           after  == LiveLinks(i)'
<1>1. IsFiniteSet(before) /\ Cardinality(before) \in Nat /\ Cardinality(before) <= MaxLinks
  BY LiveLinksFinite DEF LinksTyped
<1>2. after \in SUBSET before
  OBVIOUS
<1> HIDE DEF before, after
<1>3. IsFiniteSet(after) /\ Cardinality(after) <= Cardinality(before)
  BY <1>1, <1>2, FS_Subset
<1>4. Cardinality(after) \in Nat
  BY <1>3, FS_CardinalityType
<1>5. Cardinality(after) <= MaxLinks
  BY <1>1, <1>3, <1>4, CommunityAssumption
<1> QED BY <1>5 DEF after

LEMMA LinksUntouched ==
    ASSUME LinksTyped, UNCHANGED <<memberDevices, capabilities>>
    PROVE  LinksTyped' /\ Vouched
<1>1. \A i \in Identities : LiveLinks(i)' = LiveLinks(i)
  BY DEF LiveLinks
<1>2. LinksTyped'
  BY <1>1 DEF LinksTyped
<1> QED BY <1>2 DEF Vouched

\* A new member brings its device.
LEMMA JoinLinks ==
    ASSUME LinksTyped, MemberInv, NEW i \in Identities, NEW d \in Devices, NEW id,
           JoinByInvite(i, d, id)
    PROVE  LinksTyped' /\ Vouched
<1> USE DEF JoinByInvite
<1>1. \A j \in Identities : LiveLinks(j)' = LiveLinks(j)
  BY DEF LiveLinks
<1>2. memberDevices' \in [Identities -> SUBSET Devices]
      /\ \A j \in Identities : memberDevices[j] \subseteq memberDevices'[j]
  BY DEF LinksTyped
<1>3. \A l \in DOMAIN capabilities : capabilities[l].identity \in Identities
  BY DEF LinksTyped, Link
<1>4. LinksTyped'
  BY <1>1, <1>2, <1>3 DEF LinksTyped
<1>5. Vouched
  BY DEF Vouched, LinksTyped, MayJoin
<1> QED BY <1>4, <1>5

LEMMA AuthorizeLinks ==
    ASSUME LinksTyped, NEW i \in Identities, NEW d, NEW new \in Devices, NEW id \in Links,
           AuthorizeDeviceLink(i, d, new, id)
    PROVE  LinksTyped' /\ Vouched
<1> DEFINE kept == {l \in DOMAIN capabilities : capabilities[l].state = "live"}
           row  == [identity |-> i, device |-> new, voucher |-> d, state |-> "live"]
<1>1. /\ id \notin kept /\ capabilities' = Put(Rows(capabilities, kept), id, row)
      /\ d \in memberDevices[i] /\ UNCHANGED memberDevices
  BY DEF AuthorizeDeviceLink, IsAuthorizedDevice, loggedTables
<1>2. /\ row \in Link /\ row.identity = i /\ row.state = "live" /\ row.voucher = d
  BY <1>1 DEF Link, LinksTyped
<1>3. /\ DOMAIN capabilities' = kept \cup {id} /\ capabilities'[id] = row
      /\ \A l \in kept : capabilities'[l] = capabilities[l]
  BY <1>1 DEF Put, Rows
<1> HIDE DEF row
<1>4. \A j \in Identities : j # i => LiveLinks(j)' = LiveLinks(j)
  BY <1>2, <1>3 DEF LiveLinks
<1>5. LiveLinks(i)' = LiveLinks(i) \cup {id}
  BY <1>2, <1>3 DEF LiveLinks
<1>6. Cardinality(LiveLinks(i)') <= MaxLinks
  <2> DEFINE links == LiveLinks(i)
  <2>1. IsFiniteSet(links) /\ Cardinality(links) \in Nat /\ Cardinality(links) < MaxLinks
    BY LiveLinksFinite DEF AuthorizeDeviceLink
  <2> HIDE DEF links
  <2>2. Cardinality(links \cup {id}) \in {Cardinality(links), Cardinality(links) + 1}
    BY <2>1, FS_AddElement
  <2>3. Cardinality(links \cup {id}) <= MaxLinks
    BY <2>1, <2>2, CommunityAssumption
  <2> QED BY <1>5, <2>3 DEF links
<1>7. LinksTyped'
  BY <1>1, <1>2, <1>3, <1>4, <1>6 DEF LinksTyped
<1> QED BY <1>1, <1>7 DEF Vouched

\* A live capability is used up, or expires.
LEMMA SpendLink ==
    ASSUME LinksTyped, NEW id \in DOMAIN capabilities, NEW spent \in {"consumed", "expired"},
           capabilities' = [capabilities EXCEPT ![id].state = spent]
    PROVE  /\ DOMAIN capabilities' = DOMAIN capabilities
           /\ capabilities'[id].state = spent
           /\ \A l \in DOMAIN capabilities :
                 /\ capabilities'[l] \in Link
                 /\ capabilities'[l].identity = capabilities[l].identity
                 /\ capabilities'[l].voucher = capabilities[l].voucher
                 /\ capabilities'[l].state = "live" => capabilities[l].state = "live"
<1> DEFINE row == [capabilities[id] EXCEPT !.state = spent]
<1>1. capabilities' = [capabilities EXCEPT ![id] = row] /\ capabilities[id] \in Link
  BY DEF LinksTyped
<1>2. /\ row \in Link /\ row.state = spent /\ row.identity = capabilities[id].identity
      /\ row.voucher = capabilities[id].voucher
  BY <1>1 DEF Link
<1> HIDE DEF row
<1> QED BY <1>1, <1>2 DEF LinksTyped

LEMMA EnrollLinks ==
    ASSUME LinksTyped, NEW i \in Identities, NEW d, NEW id, EnrollDevice(i, d, id)
    PROVE  LinksTyped' /\ Vouched
<1> USE DEF EnrollDevice
<1>1. /\ id \in DOMAIN capabilities /\ capabilities[id].state = "live"
      /\ capabilities[id].identity = i /\ capabilities[id].device = d
      /\ capabilities' = [capabilities EXCEPT ![id].state = "consumed"]
  BY DEF LiveLinks
<1>2. /\ DOMAIN capabilities' = DOMAIN capabilities
      /\ capabilities'[id].state = "consumed"
      /\ \A l \in DOMAIN capabilities :
            /\ capabilities'[l] \in Link
            /\ capabilities'[l].identity = capabilities[l].identity
            /\ capabilities'[l].voucher = capabilities[l].voucher
            /\ capabilities'[l].state = "live" => capabilities[l].state = "live"
  BY <1>1, SpendLink
<1>3. d \in Devices
  BY <1>1 DEF LinksTyped, Link
<1>4. /\ memberDevices' \in [Identities -> SUBSET Devices]
      /\ \A j \in Identities : memberDevices[j] \subseteq memberDevices'[j]
  BY <1>3 DEF LinksTyped
<1>5. \A j \in Identities : LiveLinks(j)' \subseteq LiveLinks(j)
  BY <1>2 DEF LiveLinks
<1>6. \A l \in DOMAIN capabilities : capabilities[l].identity \in Identities
  BY DEF LinksTyped, Link
<1>7. LinksTyped'
  BY <1>2, <1>4, <1>5, <1>6, FewerLinks DEF LinksTyped
<1>8. \A j \in Identities : \A e \in memberDevices'[j] \ memberDevices[j] : j = i /\ e = d
  BY DEF LinksTyped
<1>9. capabilities[id].voucher \in memberDevices[i]
  BY <1>1 DEF LinksTyped
<1>10. Vouched
  BY <1>1, <1>2, <1>8, <1>9 DEF Vouched
<1> QED BY <1>7, <1>10

LEMMA ExpireLinks ==
    ASSUME LinksTyped, NEW id, LinkExpires(id)
    PROVE  LinksTyped' /\ Vouched
<1> USE DEF LinkExpires, loggedTables
<1>1. /\ DOMAIN capabilities' = DOMAIN capabilities
      /\ \A l \in DOMAIN capabilities :
            /\ capabilities'[l] \in Link
            /\ capabilities'[l].identity = capabilities[l].identity
            /\ capabilities'[l].voucher = capabilities[l].voucher
            /\ capabilities'[l].state = "live" => capabilities[l].state = "live"
  BY SpendLink
<1>2. \A j \in Identities : LiveLinks(j)' \subseteq LiveLinks(j)
  BY <1>1 DEF LiveLinks
<1>3. LinksTyped'
  BY <1>1, <1>2, FewerLinks DEF LinksTyped
<1> QED BY <1>3 DEF Vouched

StoreTyped ==
    /\ DOMAIN channels \subseteq Channels
    /\ \A c \in DOMAIN channels : channels[c] \in [RoleIds -> Override]
    /\ DOMAIN invites \subseteq Invites
    /\ \A id \in DOMAIN invites : invites[id].used <= invites[id].max
    /\ voiceLimit \in VoiceLimits /\ opLog \in 0..MaxOps
    /\ presence \in [Identities -> PresenceState]
    /\ calls \in [Channels -> SUBSET Identities]

\* What each part of the store sees of a command.
LEMMA CommandParts ==
    ASSUME NEW s, Command(s)
    PROVE  LET i == identity[s]
               d == device[s]
           IN  /\ \/ UNCHANGED <<memberDevices, capabilities>>
                  \/ \E id \in Invites : JoinByInvite(i, d, id)
                  \/ \E new \in Devices, l \in Links : AuthorizeDeviceLink(i, d, new, l)
               /\ \/ UNCHANGED channels
                  \/ \E c \in Channels : ChannelCreate(i, c)
                  \/ \E c \in Channels, r \in NamedRoles, o \in NamedOverrides :
                         ChannelUpdateOverrides(i, c, r, o)
               /\ \/ UNCHANGED invites
                  \/ \E id \in Invites : JoinByInvite(i, d, id) \/ InviteRevoke(i, id)
                  \/ \E id \in Invites, r \in NamedRoles, n \in UsesOffered, known \in BOOLEAN :
                         InviteCreate(i, id, r, n, known)
               /\ \/ UNCHANGED voiceLimit
                  \/ \E n \in VoiceLimits : UpdateConfig(i, n)
               /\ UNCHANGED opLog \/ AppendOp
               /\ \/ UNCHANGED presence
                  \/ \E j : presence' = [presence EXCEPT ![j] = "offline"]
                  \/ \E state \in PresenceChoices : SetPresence(i, state)
               /\ \/ UNCHANGED calls
                  \/ \E c \in Channels : CallJoin(i, c) \/ CallLeave(i, c)
               /\ UNCHANGED gatewayVars
<1> DEFINE i == identity[s]
           d == device[s]
<1> USE DEF tables, loggedTables
<1>1. \/ \E id \in Invites : JoinByInvite(i, d, id)
      \/ Leave(i)
      \/ \E j \in Identities : TransferOwnership(i, j)
      \/ \E j \in Identities : Kick(i, j) \/ Ban(i, j)
      \/ \E j \in Identities, r \in NamedRoles : RoleAssign(i, j, r)
      \/ \E r \in CustomRoles, role \in CustomRoleChoices : RoleCreate(i, r, role)
      \/ \E n \in VoiceLimits : UpdateConfig(i, n)
      \/ \E c \in Channels : ChannelCreate(i, c)
      \/ \E c \in Channels, r \in NamedRoles, o \in NamedOverrides :
             ChannelUpdateOverrides(i, c, r, o)
      \/ \E id \in Invites, r \in NamedRoles, n \in UsesOffered, known \in BOOLEAN :
             InviteCreate(i, id, r, n, known)
      \/ \E id \in Invites : InviteRevoke(i, id)
      \/ \E new \in Devices, l \in Links : AuthorizeDeviceLink(i, d, new, l)
      \/ \E c \in Channels : CallJoin(i, c) \/ CallLeave(i, c)
      \/ \E state \in PresenceChoices : SetPresence(i, state)
  BY DEF Command
<1> HIDE DEF i, d
<1>2. \/ UNCHANGED <<memberDevices, capabilities>>
      \/ \E id \in Invites : JoinByInvite(i, d, id)
      \/ \E new \in Devices, l \in Links : AuthorizeDeviceLink(i, d, new, l)
  BY <1>1 DEF Leave, TransferOwnership, Kick, Ban, RoleAssign, RoleCreate, UpdateConfig,
      ChannelCreate, ChannelUpdateOverrides, InviteCreate, InviteRevoke, CallJoin, CallLeave,
      SetPresence
<1>3. \/ UNCHANGED channels
      \/ \E c \in Channels : ChannelCreate(i, c)
      \/ \E c \in Channels, r \in NamedRoles, o \in NamedOverrides :
             ChannelUpdateOverrides(i, c, r, o)
  BY <1>1 DEF JoinByInvite, Leave, TransferOwnership, Kick, Ban, RoleAssign, RoleCreate,
      UpdateConfig, InviteCreate, InviteRevoke, AuthorizeDeviceLink, CallJoin, CallLeave,
      SetPresence
<1>4. \/ UNCHANGED invites
      \/ \E id \in Invites : JoinByInvite(i, d, id) \/ InviteRevoke(i, id)
      \/ \E id \in Invites, r \in NamedRoles, n \in UsesOffered, known \in BOOLEAN :
             InviteCreate(i, id, r, n, known)
  BY <1>1 DEF Leave, TransferOwnership, Kick, Ban, RoleAssign, RoleCreate, UpdateConfig,
      ChannelCreate, ChannelUpdateOverrides, AuthorizeDeviceLink, CallJoin, CallLeave, SetPresence
<1>5. UNCHANGED voiceLimit \/ \E n \in VoiceLimits : UpdateConfig(i, n)
  BY <1>1 DEF JoinByInvite, Leave, TransferOwnership, Kick, Ban, RoleAssign, RoleCreate,
      ChannelCreate, ChannelUpdateOverrides, InviteCreate, InviteRevoke, AuthorizeDeviceLink,
      CallJoin, CallLeave, SetPresence
<1>6. UNCHANGED opLog \/ AppendOp
  BY <1>1 DEF JoinByInvite, Leave, TransferOwnership, Kick, Ban, RoleAssign, RoleCreate,
      UpdateConfig, ChannelCreate, ChannelUpdateOverrides, InviteCreate, InviteRevoke,
      AuthorizeDeviceLink, CallJoin, CallLeave, SetPresence
<1>7. \/ UNCHANGED presence
      \/ \E j : presence' = [presence EXCEPT ![j] = "offline"]
      \/ \E state \in PresenceChoices : SetPresence(i, state)
  BY <1>1 DEF JoinByInvite, Leave, TransferOwnership, Kick, Ban, RemoveMember, RoleAssign,
      RoleCreate, UpdateConfig, ChannelCreate, ChannelUpdateOverrides, InviteCreate, InviteRevoke,
      AuthorizeDeviceLink, CallJoin, CallLeave
<1>8. UNCHANGED calls \/ \E c \in Channels : CallJoin(i, c) \/ CallLeave(i, c)
  BY <1>1 DEF JoinByInvite, Leave, TransferOwnership, Kick, Ban, RoleAssign, RoleCreate,
      UpdateConfig, ChannelCreate, ChannelUpdateOverrides, InviteCreate, InviteRevoke,
      AuthorizeDeviceLink, SetPresence
<1> QED BY <1>2, <1>3, <1>4, <1>5, <1>6, <1>7, <1>8 DEF Command, i, d

LEMMA CommandStore ==
    ASSUME MemberInv, StoreTyped, NEW s, identity[s] \in Identities, Command(s)
    PROVE  StoreTyped'
<1> USE DEF StoreTyped
<1>1. /\ DOMAIN channels' \subseteq Channels
      /\ \A c \in DOMAIN channels' : channels'[c] \in [RoleIds -> Override]
  <2>1. NoOverride \in Override /\ NamedOverrides \subseteq Override
    BY GatewayAssumption DEF NoOverride, Override
  <2>2. ASSUME NEW row \in [RoleIds -> Override], NEW c \in Channels,
               channels' = Put(channels, c, row) \/ channels' = [channels EXCEPT ![c] = row]
        PROVE  /\ DOMAIN channels' \subseteq Channels
               /\ \A x \in DOMAIN channels' : channels'[x] \in [RoleIds -> Override]
    BY <2>2 DEF Put
  <2>3. CASE \E c \in Channels : ChannelCreate(identity[s], c)
    <3>1. [r \in RoleIds |-> NoOverride] \in [RoleIds -> Override]
      BY <2>1
    <3> QED BY <2>2, <2>3, <3>1 DEF ChannelCreate
  <2>4. CASE \E c \in Channels, r \in NamedRoles, o \in NamedOverrides :
                 ChannelUpdateOverrides(identity[s], c, r, o)
    <3>1. PICK c \in Channels, r \in NamedRoles, o \in NamedOverrides :
              ChannelUpdateOverrides(identity[s], c, r, o)
      BY <2>4
    <3>2. [x \in RoleIds |-> IF x = r THEN o ELSE NoOverride] \in [RoleIds -> Override]
      BY <2>1
    <3> QED BY <2>2, <3>1, <3>2 DEF ChannelUpdateOverrides
  <2> QED BY <2>3, <2>4, CommandParts
<1>2. /\ DOMAIN invites' \subseteq Invites
      /\ \A id \in DOMAIN invites' : invites'[id].used <= invites'[id].max
  <2>1. CASE \E id \in Invites : JoinByInvite(identity[s], device[s], id)
    <3>1. PICK id \in Invites : JoinByInvite(identity[s], device[s], id)
      BY <2>1
    <3> DEFINE row == [invites[id] EXCEPT !.used = invites[id].used + 1]
    <3>2. /\ invites' = [invites EXCEPT ![id] = row] /\ id \in DOMAIN invites
          /\ invites[id] \in Invite /\ invites[id].used < invites[id].max
      BY <3>1 DEF JoinByInvite, MayJoin, Usable, MemberInv, InvitesTyped
    <3>3. row.used = invites[id].used + 1 /\ row.max = invites[id].max
      BY <3>2 DEF Invite
    <3>4. row.used <= row.max
      BY <3>2, <3>3 DEF Invite
    <3> HIDE DEF row
    <3> QED BY <3>2, <3>4
  <2>2. CASE \E id \in Invites : InviteRevoke(identity[s], id)
    <3>1. PICK id \in Invites : InviteRevoke(identity[s], id)
      BY <2>2
    <3> DEFINE row == [invites[id] EXCEPT !.revoked = TRUE]
    <3>2. /\ invites' = [invites EXCEPT ![id] = row] /\ id \in DOMAIN invites
          /\ invites[id] \in Invite
      BY <3>1 DEF InviteRevoke, MemberInv, InvitesTyped
    <3>3. row.used = invites[id].used /\ row.max = invites[id].max
      BY <3>2 DEF Invite
    <3> HIDE DEF row
    <3> QED BY <3>2, <3>3
  <2>3. CASE \E id \in Invites, r \in NamedRoles, n \in UsesOffered, known \in BOOLEAN :
                 InviteCreate(identity[s], id, r, n, known)
    <3>1. PICK id \in Invites, r \in NamedRoles, n \in UsesOffered, known \in BOOLEAN :
              InviteCreate(identity[s], id, r, n, known)
      BY <2>3
    <3> DEFINE row == [role |-> r, max |-> n, used |-> 0, expired |-> FALSE, revoked |-> FALSE,
                       known |-> known]
    <3>2. invites' = Put(invites, id, row)
      BY <3>1 DEF InviteCreate
    <3>3. row.used <= row.max
      BY GatewayAssumption
    <3> HIDE DEF row
    <3> QED BY <3>2, <3>3 DEF Put
  <2> QED BY <2>1, <2>2, <2>3, CommandParts
<1>3. voiceLimit' \in VoiceLimits /\ opLog' \in 0..MaxOps
  BY CommandParts, CommunityAssumption DEF UpdateConfig, AppendOp
<1>4. presence' \in [Identities -> PresenceState]
  BY CommandParts, GatewayAssumption DEF SetPresence, PresenceState
<1>5. calls' \in [Channels -> SUBSET Identities]
  BY CommandParts, SMTT(30) DEF CallJoin, CallLeave
<1> QED BY <1>1, <1>2, <1>3, <1>4, <1>5

(***************************************************************************)
(* The sockets.  A session has a device with its identity.                 *)
(***************************************************************************)
SocketsTyped ==
    /\ status \in [Sockets -> SocketStatus]
    /\ origin \in [Sockets -> Origins \cup {None}]
    /\ identity \in [Sockets -> Identities \cup {None}]
    /\ device \in [Sockets -> Devices \cup {None}]
    /\ \A s \in Sockets : identity[s] # None => device[s] \in Devices
    /\ challenged \subseteq {s \in Sockets : status[s] = "open"}
    /\ pending \subseteq {s \in Sockets : identity[s] # None}

GateInv == LinksTyped /\ StoreTyped /\ SocketsTyped

LEMMA InitGate == Init => GateInv
<1> SUFFICES ASSUME Init PROVE GateInv
  OBVIOUS
<1> USE DEF Init, CommunityInit
<1>1. LinksTyped
  <2>1. \A i \in Identities : LiveLinks(i) = {}
    BY DEF LiveLinks
  <2>2. \A i \in Identities : Cardinality(LiveLinks(i)) <= MaxLinks
    <3>1. Cardinality({}) <= MaxLinks
      BY FS_EmptySet, CommunityAssumption
    <3> HIDE DEF Init, CommunityInit
    <3> QED BY <2>1, <3>1
  <2>3. memberDevices \in [Identities -> SUBSET Devices]
    BY CommunityAssumption
  <2>4. DOMAIN capabilities = {}
    OBVIOUS
  <2> HIDE DEF Init, CommunityInit
  <2> QED BY <2>2, <2>3, <2>4 DEF LinksTyped
<1>2. StoreTyped
  BY CommunityAssumption, FirstInvitesAssumption DEF StoreTyped, PresenceState
<1>3. SocketsTyped
  BY NoneAssumption DEF SocketsTyped, SocketStatus
<1> QED BY <1>1, <1>2, <1>3 DEF GateInv

LEMMA StoreUntouched ==
    ASSUME StoreTyped, UNCHANGED <<channels, invites, voiceLimit>>,
           opLog' = opLog \/ AppendOp,
           presence' \in [Identities -> PresenceState], calls' \in [Channels -> SUBSET Identities]
    PROVE  StoreTyped'
<1>1. opLog' \in 0..MaxOps
  BY CommunityAssumption DEF StoreTyped, AppendOp
<1> QED BY <1>1 DEF StoreTyped

LEMMA SocketsStep ==
    ASSUME SocketsTyped, [Next]_vars
    PROVE  SocketsTyped'
<1> USE DEF SocketsTyped
<1>1. CASE UNCHANGED <<socketVars, sessionVars>>
  BY <1>1 DEF socketVars, sessionVars
<1>2. CASE \E s \in Sockets, o \in Origins : Connect(s, o)
  BY <1>2 DEF Connect, sessionVars, SocketStatus, Origins
<1>3. CASE \E s \in Sockets, i \in Identities, d \in Devices : AuthProve(s, i, d)
  BY <1>3, NoneAssumption DEF AuthProve, socketVars
<1>4. CASE \E s \in Sockets : Disconnect(s)
  <2>1. PICK s \in Sockets : Disconnect(s)
    BY <1>4
  <2>2. /\ status' \in [Sockets -> SocketStatus]
        /\ origin' \in [Sockets -> Origins \cup {None}]
        /\ identity' \in [Sockets -> Identities \cup {None}]
        /\ device' \in [Sockets -> Devices \cup {None}]
    BY <2>1 DEF Disconnect, ReleaseConnection, SocketStatus
  <2>3. /\ \A t \in Sockets : identity'[t] # None => device'[t] \in Devices
        /\ challenged' \subseteq {t \in Sockets : status'[t] = "open"}
        /\ pending' \subseteq {t \in Sockets : identity'[t] # None}
    BY <2>1 DEF Disconnect
  <2> QED BY <2>2, <2>3
<1>5. CASE \E s \in Sockets : AuthBegin(s) \/ AuthRejected(s)
  BY <1>5 DEF AuthBegin, AuthRejected, socketVars
<1>6. CASE \E s \in Sockets : Enroll(s)
  BY <1>6 DEF Enroll, socketVars
<1>7. CASE \E s \in Sockets : CommandThrows(s)
  BY <1>7 DEF CommandThrows, Stop, SocketStatus
<1>8. CASE \E s \in Sockets : Hello(s) \/ Command(s)
  BY <1>8, <1>1 DEF Hello, Command, gatewayVars
<1>9. CASE \/ \E id \in Invites : InviteExpires(id) /\ UNCHANGED gatewayVars
           \/ \E l \in Links : LinkExpires(l) /\ UNCHANGED gatewayVars
           \/ Restart \/ WriterChanges \/ UNCHANGED vars
  BY <1>9, <1>1 DEF Restart, WriterChanges, vars, gatewayVars
<1> QED
  BY <1>2, <1>3, <1>4, <1>5, <1>6, <1>7, <1>8, <1>9 DEF Next

LEMMA GateStep ==
    ASSUME MemberInv, GateInv, [Next]_vars
    PROVE  GateInv' /\ Vouched
<1>1. SocketsTyped'
  BY SocketsStep DEF GateInv
<1>2. ASSUME UNCHANGED <<memberDevices, capabilities, channels, invites, voiceLimit, opLog>>,
             presence' \in [Identities -> PresenceState], calls' \in [Channels -> SUBSET Identities]
      PROVE  GateInv' /\ Vouched
  BY <1>1, <1>2, LinksUntouched, StoreUntouched DEF GateInv
<1>3. presence \in [Identities -> PresenceState] /\ calls \in [Channels -> SUBSET Identities]
  BY DEF GateInv, StoreTyped
<1>4. \A s \in Sockets : identity[s] # None => identity[s] \in Identities /\ device[s] \in Devices
  BY DEF GateInv, SocketsTyped
<1> USE DEF communityVars, tables, loggedTables
<1>5. CASE UNCHANGED communityVars
  BY <1>5, <1>3, <1>2
<1>6. CASE \E s \in Sockets, o \in Origins : Connect(s, o)
  BY <1>6, <1>5 DEF Connect
<1>7. CASE \E s \in Sockets, i \in Identities, d \in Devices : AuthProve(s, i, d)
  BY <1>7, <1>5 DEF AuthProve
<1>8. CASE \E s \in Sockets : Disconnect(s) \/ AuthBegin(s) \/ AuthRejected(s) \/ Hello(s)
  BY <1>8, <1>3, <1>2 DEF Disconnect, AuthBegin, AuthRejected, Hello, SetPresence, PresenceState
<1>9. CASE \E s \in Sockets : Command(s)
  <2>1. PICK s \in Sockets : Command(s)
    BY <1>9
  <2>2. identity[s] \in Identities /\ device[s] \in Devices
    BY <2>1, <1>4 DEF Command, MayWrite, MayCommand, Session
  <2>3. StoreTyped'
    BY <2>1, <2>2, CommandStore DEF GateInv
  <2>4. LinksTyped' /\ Vouched
    BY <2>1, <2>2, CommandParts, LinksUntouched, JoinLinks, AuthorizeLinks DEF GateInv
  <2> QED BY <1>1, <2>3, <2>4 DEF GateInv
<1>10. CASE \E s \in Sockets : Enroll(s)
  <2>1. PICK s \in Sockets, l \in Links : Enroll(s) /\ EnrollDevice(identity[s], device[s], l)
    BY <1>10 DEF Enroll
  <2>2. identity[s] \in Identities
    BY <2>1, <1>4 DEF Enroll, Session
  <2>3. LinksTyped' /\ Vouched
    BY <2>1, <2>2, EnrollLinks DEF GateInv
  <2>4. StoreTyped'
    BY <2>1, <1>3, StoreUntouched DEF GateInv, EnrollDevice
  <2> QED BY <1>1, <2>3, <2>4 DEF GateInv
<1>11. CASE \E s \in Sockets : CommandThrows(s)
  BY <1>11, <1>3, <1>2 DEF CommandThrows, Stop
<1>12. CASE \E id \in Invites : InviteExpires(id) /\ UNCHANGED gatewayVars
  <2>1. PICK id \in Invites : InviteExpires(id)
    BY <1>12
  <2> DEFINE row == [invites[id] EXCEPT !.expired = TRUE]
  <2>2. /\ invites' = [invites EXCEPT ![id] = row] /\ id \in DOMAIN invites
        /\ invites[id] \in Invite
    BY <2>1 DEF InviteExpires, MemberInv, InvitesTyped
  <2>3. row.used = invites[id].used /\ row.max = invites[id].max
    BY <2>2 DEF Invite
  <2> HIDE DEF row
  <2>4. \A x \in DOMAIN invites' : invites'[x].used <= invites'[x].max
    BY <2>2, <2>3 DEF GateInv, StoreTyped
  <2>5. StoreTyped'
    BY <2>1, <2>2, <2>4 DEF GateInv, StoreTyped, InviteExpires
  <2>6. LinksTyped' /\ Vouched
    BY <2>1, LinksUntouched DEF GateInv, InviteExpires
  <2> QED BY <1>1, <2>5, <2>6 DEF GateInv
<1>13. CASE \E l \in Links : LinkExpires(l) /\ UNCHANGED gatewayVars
  <2>1. LinksTyped' /\ Vouched
    BY <1>13, ExpireLinks DEF GateInv
  <2>2. StoreTyped'
    BY <1>13, <1>3, StoreUntouched DEF GateInv, LinkExpires
  <2> QED BY <1>1, <2>1, <2>2 DEF GateInv
<1>14. CASE Restart \/ WriterChanges \/ UNCHANGED vars
  BY <1>14, <1>5 DEF Restart, WriterChanges, vars
<1> QED
  BY <1>6, <1>7, <1>8, <1>9, <1>10, <1>11, <1>12, <1>13, <1>14 DEF Next

(***************************************************************************)
(* The connection counters.  A socket holds a place from acceptConnection  *)
(* to the one close event that releases it.                                *)
(***************************************************************************)
Holding(O) == {s \in Sockets : status[s] = "open" /\ origin[s] \in O}

PlacesKept ==
    /\ ipConnections = Cardinality(Holding(Origins))
    /\ iceSessionConnections \in [IceSessions -> Nat]
    /\ \A o \in IceSessions : iceSessionConnections[o] = Cardinality(Holding({o}))
    /\ \A s \in Sockets : origin[s] # None <=> status[s] = "open"

\* No counter holds more sockets than there are: each is a number, and one place
\* more or less counts one more or less.
LEMMA PlaceTaken ==
    ASSUME NEW O, NEW s \in Sockets, s \notin Holding(O), Holding(O)' = Holding(O) \cup {s}
    PROVE  Cardinality(Holding(O)') = Cardinality(Holding(O)) + 1
<1>1. IsFiniteSet(Holding(O))
  BY GatewayAssumption, FS_Subset DEF Holding
<1> QED BY <1>1, FS_AddElement

LEMMA PlaceReleased ==
    ASSUME NEW O, NEW s \in Holding(O), Holding(O)' = Holding(O) \ {s}
    PROVE  /\ Cardinality(Holding(O)') = Cardinality(Holding(O)) - 1
           /\ Cardinality(Holding(O)) \in Nat /\ Cardinality(Holding(O)) > 0
<1> DEFINE held == Holding(O)
<1>1. IsFiniteSet(held) /\ s \in held
  BY GatewayAssumption, FS_Subset DEF Holding
<1> HIDE DEF held
<1>2. Cardinality(held \ {s}) = Cardinality(held) - 1
  BY <1>1, FS_RemoveElement
<1>3. Cardinality(held) \in Nat /\ Cardinality(held) # 0
  BY <1>1, FS_CardinalityType, FS_EmptySet
<1>4. Cardinality(held) > 0
  BY <1>3
<1> QED BY <1>2, <1>3, <1>4 DEF held

LEMMA PlacesUntouched ==
    ASSUME PlacesKept, UNCHANGED socketVars
    PROVE  PlacesKept'
<1>1. \A O : Holding(O)' = Holding(O)
  BY DEF Holding, socketVars
<1> QED BY <1>1 DEF PlacesKept, socketVars

LEMMA ConnectPlaces ==
    ASSUME SocketsTyped, PlacesKept, NEW s \in Sockets, NEW o \in Origins, Connect(s, o)
    PROVE  PlacesKept'
<1> USE DEF Connect
<1>1. status[s] = "none" /\ origin[s] = None
  BY DEF PlacesKept, SocketsTyped
<1>2. CASE /\ status' = [status EXCEPT ![s] = "refused"]
           /\ UNCHANGED <<origin, ipConnections, iceSessionConnections>>
  <2>1. \A O : Holding(O)' = Holding(O)
    BY <1>1, <1>2 DEF Holding, SocketsTyped
  <2>2. \A t \in Sockets : (origin[t] # None <=> status[t] = "open")'
    BY <1>1, <1>2 DEF PlacesKept, SocketsTyped
  <2> QED BY <1>2, <2>1, <2>2 DEF PlacesKept
<1>3. CASE /\ status' = [status EXCEPT ![s] = "open"]
           /\ origin' = [origin EXCEPT ![s] = o]
           /\ ipConnections' = ipConnections + 1
           /\ iceSessionConnections' = [x \in IceSessions |->
                  iceSessionConnections[x] + (IF x = o THEN 1 ELSE 0)]
  <2>1. \A O : s \notin Holding(O)
    BY <1>1 DEF Holding
  <2>2. \A O : o \in O => Holding(O)' = Holding(O) \cup {s}
    BY <1>1, <1>3 DEF Holding, SocketsTyped
  <2>3. \A O : o \notin O => Holding(O)' = Holding(O)
    BY <1>1, <1>3 DEF Holding, SocketsTyped
  <2>4. ipConnections' = Cardinality(Holding(Origins)')
    BY <1>3, <2>1, <2>2, PlaceTaken DEF PlacesKept
  <2>5. ASSUME NEW x \in IceSessions
        PROVE  iceSessionConnections'[x] = Cardinality(Holding({x})')
    <3>1. CASE x = o
      <4>1. Cardinality(Holding({x})') = Cardinality(Holding({x})) + 1
        BY <3>1, <2>1, <2>2, PlaceTaken
      <4> QED BY <1>3, <3>1, <4>1 DEF PlacesKept
    <3>2. CASE x # o
      <4>1. Holding({x})' = Holding({x})
        BY <3>2, <2>3
      <4>2. iceSessionConnections'[x] = iceSessionConnections[x]
        BY <1>3, <3>2 DEF PlacesKept
      <4> QED BY <4>1, <4>2 DEF PlacesKept
    <3> QED BY <3>1, <3>2
  <2>6. \A t \in Sockets : (origin[t] # None <=> status[t] = "open")'
    BY <1>1, <1>3, GatewayAssumption DEF PlacesKept, SocketsTyped, Origins
  <2>7. iceSessionConnections' \in [IceSessions -> Nat]
    BY <1>3 DEF PlacesKept
  <2> QED BY <2>4, <2>5, <2>6, <2>7 DEF PlacesKept
<1> QED BY <1>2, <1>3

\* A close event of a refused socket gives nothing back: it holds nothing.
LEMMA DisconnectPlaces ==
    ASSUME SocketsTyped, PlacesKept, NEW s \in Sockets, Disconnect(s)
    PROVE  PlacesKept'
<1> USE DEF Disconnect, ReleaseConnection
<1>1. /\ status' = [status EXCEPT ![s] = "none"]
      /\ origin' = [origin EXCEPT ![s] = None]
  OBVIOUS
<1>2. \A t \in Sockets : (origin[t] # None <=> status[t] = "open")'
  BY <1>1 DEF PlacesKept, SocketsTyped
<1>3. \A O : s \in Holding(O) => Holding(O)' = Holding(O) \ {s}
  BY <1>1 DEF Holding, SocketsTyped
<1>4. \A O : s \notin Holding(O) => Holding(O)' = Holding(O)
  BY <1>1 DEF Holding, SocketsTyped
<1>5. ipConnections' = Cardinality(Holding(Origins)')
  <2>1. CASE origin[s] # None
    <3>1. s \in Holding(Origins)
      BY <2>1 DEF Holding, PlacesKept, SocketsTyped
    <3>2. /\ Cardinality(Holding(Origins)') = Cardinality(Holding(Origins)) - 1
          /\ Cardinality(Holding(Origins)) > 0
      BY <3>1, <1>3, PlaceReleased
    <3> QED BY <2>1, <3>2 DEF PlacesKept
  <2>2. CASE origin[s] = None
    <3>1. s \notin Holding(Origins)
      BY <2>2 DEF Holding, PlacesKept
    <3> QED BY <2>2, <3>1, <1>4 DEF PlacesKept
  <2> QED BY <2>1, <2>2
<1>6. ASSUME NEW x \in IceSessions
      PROVE  /\ iceSessionConnections'[x] = Cardinality(Holding({x})')
             /\ iceSessionConnections'[x] \in Nat
  <2>1. CASE x = origin[s]
    <3>1. s \in Holding({x})
      BY <2>1, GatewayAssumption DEF Holding, PlacesKept, SocketsTyped
    <3>2. /\ Cardinality(Holding({x})') = Cardinality(Holding({x})) - 1
          /\ Cardinality(Holding({x})) > 0 /\ Cardinality(Holding({x})) \in Nat
      BY <3>1, <1>3, PlaceReleased
    <3>3. iceSessionConnections'[x] = iceSessionConnections[x] - 1
      BY <2>1, <3>2 DEF PlacesKept
    <3> QED BY <3>2, <3>3 DEF PlacesKept
  <2>2. CASE x # origin[s]
    <3>1. s \notin Holding({x})
      BY <2>2 DEF Holding
    <3>2. iceSessionConnections'[x] = iceSessionConnections[x]
      BY <2>2
    <3> QED BY <3>1, <3>2, <1>4 DEF PlacesKept
  <2> QED BY <2>1, <2>2
<1>7. iceSessionConnections' \in [IceSessions -> Nat]
  BY <1>6
<1> QED BY <1>2, <1>5, <1>6, <1>7 DEF PlacesKept

LEMMA PlacesStep ==
    ASSUME SocketsTyped, PlacesKept, [Next]_vars
    PROVE  PlacesKept'
<1>1. CASE UNCHANGED socketVars
  BY <1>1, PlacesUntouched
<1>2. CASE \E s \in Sockets, o \in Origins : Connect(s, o)
  BY <1>2, ConnectPlaces
<1>3. CASE \E s \in Sockets : Disconnect(s)
  BY <1>3, DisconnectPlaces
<1>4. CASE \E s \in Sockets : CommandThrows(s)
  <2>1. Stop
    BY <1>4 DEF CommandThrows
  <2>2. \A O : Holding(O)' = {}
    BY <2>1 DEF Holding, Stop
  <2>3. \A O : Cardinality(Holding(O)') = 0
    BY <2>2, FS_EmptySet
  <2> QED BY <2>1, <2>3 DEF Stop, PlacesKept
<1>5. CASE \E s \in Sockets, i \in Identities, d \in Devices : AuthProve(s, i, d)
  BY <1>5, <1>1 DEF AuthProve
<1>6. CASE \E s \in Sockets : AuthBegin(s) \/ AuthRejected(s) \/ Hello(s) \/ Command(s) \/ Enroll(s)
  BY <1>6, <1>1 DEF AuthBegin, AuthRejected, Hello, Command, Enroll, gatewayVars
<1>7. CASE \/ \E id \in Invites : InviteExpires(id) /\ UNCHANGED gatewayVars
           \/ \E l \in Links : LinkExpires(l) /\ UNCHANGED gatewayVars
           \/ Restart \/ WriterChanges \/ UNCHANGED vars
  BY <1>7, <1>1 DEF Restart, WriterChanges, vars, gatewayVars
<1> QED
  BY <1>2, <1>3, <1>4, <1>5, <1>6, <1>7 DEF Next

LEMMA GateSafe == Spec => [](MemberInv /\ GateInv /\ PlacesKept)
<1>1. Init => PlacesKept
  <2> SUFFICES ASSUME Init PROVE PlacesKept
    OBVIOUS
  <2>1. \A O : Holding(O) = {}
    BY DEF Holding, Init
  <2>2. \A O : Cardinality(Holding(O)) = 0
    BY <2>1, FS_EmptySet
  <2> QED BY <2>2 DEF Init, PlacesKept
<1>2. Init => MemberInv /\ GateInv /\ PlacesKept
  BY <1>1, InitMemberInv, InitGate
<1>3. MemberInv /\ GateInv /\ PlacesKept /\ [Next]_vars => (MemberInv /\ GateInv /\ PlacesKept)'
  <2>1. GateInv => SocketsTyped /\ SessionsTyped
    BY DEF GateInv, SocketsTyped, SessionsTyped
  <2> QED BY <2>1, MemberStep, GateStep, PlacesStep
<1> QED BY <1>2, <1>3, PTL DEF Spec

\* A pending session is freed by the enrolment of its own device, or closed.
LEMMA PendingStep ==
    ASSUME GateInv, [Next]_vars
    PROVE  \A s \in pending \ pending' :
               status'[s] = "open" => IsAuthorizedDevice(identity[s], device[s])'
<1> SUFFICES ASSUME NEW s \in pending, s \notin pending', status'[s] = "open"
             PROVE  IsAuthorizedDevice(identity[s], device[s])'
  OBVIOUS
<1>1. /\ s \in Sockets /\ identity[s] \in Identities
      /\ memberDevices \in [Identities -> SUBSET Devices]
      /\ status \in [Sockets -> SocketStatus]
  BY DEF GateInv, SocketsTyped, LinksTyped
<1>2. CASE UNCHANGED sessionVars
  BY <1>2 DEF sessionVars
<1>3. CASE \E t \in Sockets, o \in Origins : Connect(t, o)
  BY <1>3, <1>2 DEF Connect
<1>4. CASE \E t \in Sockets, i \in Identities, d \in Devices : AuthProve(t, i, d)
  BY <1>4 DEF AuthProve
<1>5. CASE \E t \in Sockets : AuthBegin(t) \/ AuthRejected(t)
  BY <1>5 DEF AuthBegin, AuthRejected
<1>6. CASE \E t \in Sockets : Hello(t) \/ Command(t)
  BY <1>6, <1>2 DEF Hello, Command, gatewayVars
<1>7. CASE \E t \in Sockets : Disconnect(t)
  BY <1>7, <1>1 DEF Disconnect
<1>8. CASE \E t \in Sockets : CommandThrows(t)
  BY <1>8, <1>1 DEF CommandThrows, Stop
<1>9. CASE \E t \in Sockets : Enroll(t)
  <2>1. PICK t \in Sockets : Enroll(t)
    BY <1>9
  <2>2. t = s
    BY <2>1 DEF Enroll
  <2>3. memberDevices' = [memberDevices EXCEPT ![identity[s]] = @ \cup {device[s]}]
    BY <2>1, <2>2 DEF Enroll, EnrollDevice
  <2> QED BY <2>1, <2>3, <1>1 DEF Enroll, IsAuthorizedDevice
<1>10. CASE \/ \E id \in Invites : InviteExpires(id) /\ UNCHANGED gatewayVars
            \/ \E l \in Links : LinkExpires(l) /\ UNCHANGED gatewayVars
            \/ Restart \/ WriterChanges \/ UNCHANGED vars
  BY <1>10, <1>2 DEF Restart, WriterChanges, vars, gatewayVars
<1> QED
  BY <1>3, <1>4, <1>5, <1>6, <1>7, <1>8, <1>9, <1>10 DEF Next

(***************************************************************************)
(* The theorems.                                                           *)
(***************************************************************************)
\* server.service.ts: through transfers, kicks, bans, departures, role changes and
\* owner invites there is always an owner, and a banned identity is not a member.
THEOREM CommunityKeepsOwner == Spec => []MembershipHolds
<1>1. MemberInv => MembershipHolds
  BY DEF MemberInv, MembershipHolds
<1> QED BY <1>1, GatewaySafe, PTL

\* An owner stops being one only while a session of its own may command: no kick, ban or
\* role assignment takes effect on one that has none, whatever roles were created.
THEOREM OwnersKeepOffice == Spec => OwnersAreNotDeposed
<1>1. MemberInv /\ SessionsTyped /\ [Next]_vars => [DeposedByItself]_vars
  BY MemberStep
<1>2. [DeposedByItself]_vars =>
          [\A i \in Identities : HoldsOwner(i) /\ ~HoldsOwner(i)' =>
               \E s \in Sockets : MayWrite(s) /\ identity[s] = i]_vars
  BY DEF DeposedByItself
<1> QED BY <1>1, <1>2, GatewaySafe, PTL DEF Spec, OwnersAreNotDeposed

\* gateway.ts: through refusals, closes of either side, handshakes, deadlines and
\* restarts, the counters are the sockets that hold a place, and every table row and
\* every map of the gateway holds what its schema says, live capabilities included.
THEOREM GatewayCounts == Spec => []SessionsCounted
<1>1. MemberInv /\ GateInv /\ PlacesKept => SessionsCounted
  <2> SUFFICES ASSUME MemberInv, GateInv, PlacesKept PROVE SessionsCounted
    OBVIOUS
  <2>1. TypeOK
    <3>1. /\ members \in [Identities -> RoleIds \cup {None}] /\ bans \subseteq Identities
          /\ DOMAIN roles \subseteq RoleIds /\ DOMAIN BuiltInRoles \subseteq DOMAIN roles
          /\ \A i \in Identities : IsMember(i) => members[i] \in DOMAIN roles
      BY DEF MemberInv, MembersTyped, RolesTyped
    <3>2. /\ DOMAIN channels \subseteq Channels
          /\ \A c \in DOMAIN channels : channels[c] \in [RoleIds -> Override]
          /\ voiceLimit \in VoiceLimits /\ opLog \in 0..MaxOps
          /\ presence \in [Identities -> PresenceState]
          /\ calls \in [Channels -> SUBSET Identities]
      BY DEF GateInv, StoreTyped
    <3>3. /\ DOMAIN invites \subseteq Invites
          /\ \A id \in DOMAIN invites : invites[id] \in Invite /\ invites[id].used <= invites[id].max
      BY DEF GateInv, StoreTyped, MemberInv, InvitesTyped
    <3>4. /\ memberDevices \in [Identities -> SUBSET Devices]
          /\ DOMAIN capabilities \subseteq Links
          /\ \A l \in DOMAIN capabilities : capabilities[l] \in Link
          /\ \A i \in Identities : Cardinality(LiveLinks(i)) <= MaxLinks
      BY DEF GateInv, LinksTyped
    <3> QED BY <3>1, <3>2, <3>3, <3>4 DEF TypeOK, GateInv, SocketsTyped
  <2>2. CountersExact
    BY DEF PlacesKept, CountersExact, Holding
  <2> QED BY <2>1, <2>2 DEF SessionsCounted
<1> QED BY <1>1, GateSafe, PTL

\* device.authorizeLink and device.enroll: whatever happens between the two, a device
\* comes to a member only by a live capability issued for it by one of the member's
\* devices and spent by it, and only that frees the session opened for the device.
THEOREM DevicesStayVouched == Spec => DevicesAreVouched
<1>1. MemberInv /\ GateInv /\ [Next]_vars =>
          [\A i \in Identities : \A d \in memberDevices'[i] \ memberDevices[i] : IsMember(i) =>
               \E l \in LiveLinks(i) :
                   /\ capabilities[l].device = d
                   /\ capabilities[l].voucher \in memberDevices[i]
                   /\ capabilities'[l].state # "live"]_vars
  BY GateStep DEF Vouched
<1>2. GateInv /\ [Next]_vars =>
          [\A s \in pending \ pending' :
               status'[s] = "open" => IsAuthorizedDevice(identity[s], device[s])']_vars
  BY PendingStep
<1> QED BY <1>1, <1>2, GateSafe, PTL
        DEF Spec, DevicesAreVouched, EnrolledWasVouched, PendingUntilEnrolled
=============================================================================
