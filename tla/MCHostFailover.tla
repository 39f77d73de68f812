--------------------------- MODULE MCHostFailover ---------------------------
(* Instances of HostFailover for TLC. *)
EXTENDS HostFailover

CONSTANTS P, N, M   \* host ids: the primary and two replicas

TwoBridges   == 1..2
ThreeBridges == 1..3

TrustAll == [n \in Replicas |-> Bridges]

\* Replicas enrolled under different bridge sets, {1, 2, 3} and {2, 3}.
TrustMixed == [n \in Replicas |-> IF n = N THEN Bridges ELSE Bridges \ {1}]

PerHost(p, n) == [h \in Hosts |-> IF h = PrimaryHost THEN p ELSE n]

\* MaxRecords: records of the primary, of a replica
Records20 == PerHost(2, 0)
Records21 == PerHost(2, 1)

\* MaxCrashes
NoCrash      == PerHost(0, 0)
CrashPrimary == PerHost(1, 0)

\* A bound on what a run explores: replicas come online at the bridges only
\* once elected.
ReplicasConnectWhenElected ==
    \A n \in Replicas, b \in Bridges : Promoted(n) \/ link[n][b] = "down"
=============================================================================
