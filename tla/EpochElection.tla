---------------------------- MODULE EpochElection ----------------------------
(***************************************************************************)
(* What the failover of a community promises its members, without votes,   *)
(* sockets or records: the write authority of an epoch is given once, to   *)
(* one host and for good, epochs are filled in order, and a bridge only    *)
(* ever moves up to an epoch whose authority has been given.  HostFailover *)
(* implements it.                                                          *)
(***************************************************************************)
EXTENDS Naturals

CONSTANTS
    Hosts,
    Bridges,
    MaxEpoch,
    Founder      \* the host that created the community

VARIABLES
    leaders,   \* [0..MaxEpoch -> SUBSET Hosts]: who was given the epoch
    adopted    \* [Bridges -> SUBSET (0..MaxEpoch)]: epochs a bridge has reached

vars == <<leaders, adopted>>

Init ==
    /\ leaders = [e \in 0..MaxEpoch |-> IF e = 0 THEN {Founder} ELSE {}]
    /\ adopted = [b \in Bridges |-> {0}]

Elect(e, h) ==
    /\ leaders[e] # {}
    /\ leaders[e + 1] = {}
    /\ leaders' = [leaders EXCEPT ![e + 1] = {h}]
    /\ UNCHANGED adopted

Adopt(b, e) ==
    /\ leaders[e] # {}
    /\ e \notin adopted[b]
    /\ adopted' = [adopted EXCEPT ![b] = @ \cup 0..e]
    /\ UNCHANGED leaders

Next ==
    \/ \E e \in 0..(MaxEpoch - 1), h \in Hosts : Elect(e, h)
    \/ \E b \in Bridges, e \in 0..MaxEpoch : Adopt(b, e)

Spec == Init /\ [][Next]_vars
=============================================================================
