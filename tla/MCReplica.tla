------------------------------ MODULE MCReplica ------------------------------
(***************************************************************************)
(* Small instances of Replica.                                             *)
(***************************************************************************)
EXTENDS Replica
=============================================================================
