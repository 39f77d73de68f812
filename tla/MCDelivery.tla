----------------------------- MODULE MCDelivery -----------------------------
(***************************************************************************)
(* Delivery for TLC: an owner, one other member, a message without and one *)
(* with an attachment.                                                     *)
(***************************************************************************)
EXTENDS Delivery

CONSTANTS m1, t1, t2

MCAttached == {t2}
MCOverIce  == {m1}
=============================================================================
