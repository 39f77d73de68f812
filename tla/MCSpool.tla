------------------------------- MODULE MCSpool -------------------------------
(***************************************************************************)
(* Small instances of Spool.  Identities are interchangeable, and so are   *)
(* the ids of messages and the contents.                                   *)
(***************************************************************************)
EXTENDS Spool, TLC

IdSymmetry ==
    Permutations(Identities) \cup Permutations(MessageIds) \cup Permutations(Contents)
=============================================================================
