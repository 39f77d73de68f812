------------------------------ MODULE MCConnect ------------------------------
(***************************************************************************)
(* Small instances of Connect.                                             *)
(***************************************************************************)
EXTENDS Connect
=============================================================================
