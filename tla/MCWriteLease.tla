---------------------------- MODULE MCWriteLease ----------------------------
(***************************************************************************)
(* Small instances of WriteLease; bridges are interchangeable in it.       *)
(***************************************************************************)
EXTENDS WriteLease, TLC

BridgeSymmetry == Permutations(Bridges)
=============================================================================
