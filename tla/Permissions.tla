----------------------------- MODULE Permissions -----------------------------
(***************************************************************************)
(* Who may do what (packages/permissions/src/index.ts): a role is          *)
(* [level, permissions], a channel's override for it [allow, deny].  The   *)
(* owner is whoever holds role-owner, or any role of level 100 and more.   *)
(***************************************************************************)
EXTENDS Naturals

OwnerLevel == 100

\* The flags the operations of Community ask for.
Flags == {"manage_server", "manage_channels", "manage_roles", "manage_invites",
          "manage_hosts", "kick_members", "ban_members", "assign_roles", "join_call"}

NoOverride == [allow |-> {}, deny |-> {}]

\* The roles a new community is seeded with.
BuiltInRoles ==
    [r \in {"role-owner", "role-admin", "role-mod", "role-member"} |->
        CASE r = "role-owner"  -> [level |-> OwnerLevel, permissions |-> Flags]
          [] r = "role-admin"  -> [level |-> 80, permissions |-> Flags]
          [] r = "role-mod"    -> [level |-> 50, permissions |-> {"kick_members", "join_call"}]
          [] r = "role-member" -> [level |-> 10, permissions |-> {"join_call"}]]

IsOwner(role) == role.level >= OwnerLevel

\* evaluatePermission: owner, then the channel's deny, its allow, then the role.
EvaluatePermission(role, override, permission) ==
    \/ IsOwner(role)
    \/ /\ permission \notin override.deny
       /\ permission \in override.allow \cup role.permissions

\* deviation: an owner may modify another owner
ModifyAnyone(role, target, permission) ==
    /\ EvaluatePermission(role, NoOverride, permission)
    /\ IsOwner(role) \/ role.level > target.level

\* canModify: the target is strictly below, and an owner is below nobody.
CanModify(role, target, permission) ==
    /\ EvaluatePermission(role, NoOverride, permission)
    /\ IF IsOwner(role) THEN target.level < OwnerLevel ELSE role.level > target.level
=============================================================================
