------------------------------ MODULE MCGateway ------------------------------
(***************************************************************************)
(* Small instances of Gateway.                                             *)
(***************************************************************************)
EXTENDS Gateway, TLC

SocketSymmetry == Permutations(Sockets)

MCOverrides == {[allow |-> {}, deny |-> {"join_call"}]}

\* One invite for two new members.
MCFirstInvites ==
    [id \in {"first"} |-> [role |-> "role-member", max |-> 2, used |-> 0, expired |-> FALSE,
                           revoked |-> FALSE, known |-> TRUE]]

MCCustomRoleChoices ==
    {[level |-> 60, permissions |-> {"manage_roles", "assign_roles", "manage_invites"}]}
=============================================================================
