--------------------------- MODULE MCDesktopHosting ---------------------------
(***************************************************************************)
(* Small instances of DesktopHosting.                                      *)
(***************************************************************************)
EXTENDS DesktopHosting

Symmetry == Permutations(Slots)
=============================================================================
