----------------------------- MODULE WriteLease -----------------------------
(***************************************************************************)
(* The clocks behind failover: how long a host keeps write authority       *)
(* without its bridges (registration-quorum.ts and the timers of           *)
(* registerRendezvousTargets in apps/janjanode/src/main.ts) against how    *)
(* long a bridge waits before it attests that the host is absent           *)
(* (witnessPrimary in apps/rendezvous/src/main.ts).                        *)
(*                                                                         *)
(* One writer, from the moment it has authority until it is fenced.  Time  *)
(* passes in seconds, the period of the two timers bridgeLiveness and      *)
(* writerFence; within a second everything interleaves.  A timer never     *)
(* misses its second: a host that is suspended or blocked for longer is    *)
(* outside this module.                                                    *)
(***************************************************************************)
EXTENDS Naturals, FiniteSets

CONSTANTS
    Bridges,
    FenceAfter,    \* primaryFenceMs, in seconds
    Grace,         \* absenceGraceMs, in seconds
    RenewEvery,    \* JC_RENDEZVOUS_RENEW_MS, in seconds
    MaxDelay,      \* bound: seconds a registration ACK travels
    MaxDrops,      \* bound: sockets that break
    Prompt         \* BOOLEAN: at the end of every second all sockets are connected
                   \* and every exchange that could be made has been made

ASSUME LeaseAssumption ==
    /\ IsFiniteSet(Bridges)
    /\ Bridges # {}
    /\ FenceAfter \in Nat \ {0}
    /\ {Grace, RenewEvery, MaxDelay, MaxDrops} \subseteq Nat
    /\ Prompt \in BOOLEAN

\* Minimum 20 s against at most 15 s in production: what is left must cover one
\* period of the timers and the slowest ACK.
ASSUME GraceAssumption == Grace > FenceAfter + MaxDelay + 1

VARIABLES
    \* the host
    writer,        \* ServerService.writer
    leaseAge,      \* seconds since lastStrictQuorumAt
    livenessDue, fenceDue,   \* the timers that have not fired this second
    renewAge,      \* seconds since the last heartbeat
    committed,     \* round.committed
    acked,         \* acknowledgements of the round
    live,          \* liveAcknowledgements of the liveness round
    asked,         \* connections with a ping of the liveness round outstanding
    answered,      \* those whose pong is on its way
    \* sockets and bridges
    link,          \* state of the host's current socket to a bridge
    listed,        \* bridges whose mark is the record of the round
    inFlight, ackAge,        \* ACKs on their way, and for how long
    lost, lostFor, \* bridges that recorded hostDisconnectedAt, and how long ago
    drops          \* sockets that may still break

leaseVars   == <<writer, leaseAge>>
timerVars   == <<livenessDue, fenceDue, renewAge>>
quorumVars  == <<committed, acked, live, asked, answered>>
bridgeVars  == <<listed, lost, lostFor>>
networkVars == <<link, inFlight, ackAge, drops>>
clockVars == <<leaseVars, timerVars, quorumVars, bridgeVars, networkVars>>

LinkState == {"down", "open", "bound", "half"}

IsMajority(S) == Cardinality(S) >= (Cardinality(Bridges) \div 2) + 1

\* A bridge holds the socket open, a host thinks it does.
BridgeSide(b) == link[b] \in {"open", "bound"}
HostSide(b)   == link[b] # "down"

(***************************************************************************)
(* RegistrationAckQuorum and RegistrationWriteAuthorityLease.              *)
(***************************************************************************)

\* deviation: a quorum of acknowledgements is taken for a quorum of live bridges
ObserveAcknowledged(acks, alive) ==
    leaseAge' = IF IsMajority(acks) THEN 0 ELSE leaseAge

\* observe: only a strict majority that answered this liveness round renews.
Observe(acks, alive) ==
    leaseAge' = IF IsMajority(alive) THEN 0 ELSE leaseAge

\* bridgeLiveness -> beginLivenessRound; answers to older rounds no longer count.
BeginLivenessRound ==
    /\ livenessDue
    /\ livenessDue' = FALSE
    /\ live' = {}
    /\ asked' = {b \in Bridges : HostSide(b)}
    /\ answered' = {}
    /\ UNCHANGED <<leaseVars, fenceDue, renewAge, committed, acked, bridgeVars, networkVars>>

\* The bridge's end of the socket answers the ping.
Answer(b) ==
    /\ b \in asked \ answered
    /\ BridgeSide(b)
    /\ answered' = answered \cup {b}
    /\ UNCHANGED <<leaseVars, timerVars, committed, acked, live, asked, bridgeVars, networkVars>>

\* pong -> confirmLiveness, then observe.
ConfirmLiveness(b) ==
    /\ b \in answered
    /\ asked' = asked \ {b} /\ answered' = answered \ {b}
    /\ IF b \in acked
       THEN live' = live \cup {b} /\ Observe(acked, live')
       ELSE UNCHANGED <<live, leaseAge>>
    /\ UNCHANGED <<writer, timerVars, committed, acked, bridgeVars, networkVars>>

\* writerFence -> fenceIfQuorumExpired.
CheckFence ==
    /\ fenceDue
    /\ fenceDue' = FALSE
    /\ \/ leaseAge < FenceAfter /\ UNCHANGED writer
       \/ leaseAge >= FenceAfter /\ writer' = FALSE
    /\ UNCHANGED <<leaseAge, livenessDue, renewAge, quorumVars, bridgeVars, networkVars>>

(***************************************************************************)
(* Registration.                                                           *)
(***************************************************************************)

\* publish up to commitRegistration at the bridge.  The bridge's cursor decides:
\* one that already holds the round's record is sent nothing.
Register(b) ==
    /\ BridgeSide(b)
    /\ b \notin listed
    /\ listed' = listed \cup {b}
    /\ lost' = lost \ {b}
    /\ lostFor' = [lostFor EXCEPT ![b] = 0]
    /\ link' = [link EXCEPT ![b] = "bound"]
    /\ inFlight' = inFlight \cup {b}
    /\ ackAge' = [ackAge EXCEPT ![b] = 0]
    /\ UNCHANGED <<leaseVars, timerVars, quorumVars, drops>>

\* register.result: the ACK is liveness evidence of its own.
Acknowledge(b) ==
    /\ b \in inFlight
    /\ inFlight' = inFlight \ {b}
    /\ committed' = TRUE
    /\ acked' = acked \cup {b}
    /\ live' = live \cup {b}
    /\ Observe(acked', live')
    /\ UNCHANGED <<writer, timerVars, asked, answered, bridgeVars, link, ackAge, drops>>

\* heartbeat: a committed round is replaced by the next record, which no bridge
\* holds and none has acknowledged; an uncommitted one is kept.
Heartbeat ==
    /\ renewAge = RenewEvery
    /\ renewAge' = 0
    /\ IF committed
       THEN /\ committed' = FALSE
            /\ acked' = {} /\ live' = {} /\ asked' = {} /\ answered' = {}
            /\ inFlight' = {}
            /\ listed' = {}
       ELSE UNCHANGED <<quorumVars, inFlight, listed>>
    /\ UNCHANGED <<leaseVars, livenessDue, fenceDue, lost, lostFor, link, ackAge, drops>>

(***************************************************************************)
(* Sockets.                                                                *)
(***************************************************************************)
SocketFault(b) ==
    /\ BridgeSide(b)
    /\ drops > 0
    /\ drops' = drops - 1

\* The bridge's close handler: unbindSocket.
BridgeSeesClose(b) ==
    /\ SocketFault(b)
    /\ link' = [link EXCEPT ![b] = "half"]
    /\ IF link[b] = "bound"
       THEN lost' = lost \cup {b} /\ lostFor' = [lostFor EXCEPT ![b] = 0]
       ELSE UNCHANGED <<lost, lostFor>>
    /\ UNCHANGED <<leaseVars, timerVars, quorumVars, listed, inFlight, ackAge>>

\* scheduleReconnect.  The bridge may have closed its end first, or does so now.
HostSeesClose(b) ==
    /\ \/ link[b] = "half" /\ UNCHANGED <<lost, lostFor, drops>>
       \/ /\ SocketFault(b)
          /\ IF link[b] = "bound"
             THEN lost' = lost \cup {b} /\ lostFor' = [lostFor EXCEPT ![b] = 0]
             ELSE UNCHANGED <<lost, lostFor>>
    /\ link' = [link EXCEPT ![b] = "down"]
    /\ acked' = acked \ {b}
    /\ live' = live \ {b}
    /\ asked' = asked \ {b} /\ answered' = answered \ {b}
    /\ inFlight' = inFlight \ {b}
    /\ UNCHANGED <<leaseVars, timerVars, committed, listed, ackAge>>

Connect(b) ==
    /\ link[b] = "down"
    /\ link' = [link EXCEPT ![b] = "open"]
    /\ UNCHANGED <<leaseVars, timerVars, quorumVars, bridgeVars, inFlight, ackAge, drops>>

(***************************************************************************)
(* A second passes.                                                        *)
(***************************************************************************)
Older(age, bound) == IF age < bound THEN age + 1 ELSE age

Settled ==
    /\ asked = {} /\ inFlight = {}
    /\ \A b \in Bridges : BridgeSide(b) /\ b \in listed

Tick ==
    /\ ~livenessDue /\ ~fenceDue /\ renewAge < RenewEvery
    /\ \A b \in inFlight : ackAge[b] < MaxDelay
    /\ Prompt => Settled
    /\ livenessDue' = TRUE /\ fenceDue' = TRUE
    /\ renewAge' = renewAge + 1
    /\ leaseAge' = Older(leaseAge, FenceAfter)
    /\ lostFor' = [b \in Bridges |-> IF b \in lost THEN Older(lostFor[b], Grace) ELSE lostFor[b]]
    /\ ackAge' = [b \in Bridges |-> IF b \in inFlight THEN ackAge[b] + 1 ELSE ackAge[b]]
    /\ UNCHANGED <<writer, quorumVars, listed, lost, link, inFlight, drops>>

-----------------------------------------------------------------------------
\* A writer either holds the ACKs of all bridges or was promoted just now and has
\* until the lease runs out to register (publishPromotedWriter).
LeaseInit ==
    /\ writer = TRUE
    /\ leaseAge = 0
    /\ livenessDue = FALSE /\ fenceDue = FALSE
    /\ renewAge = 0
    /\ live = {} /\ asked = {} /\ answered = {}
    /\ inFlight = {}
    /\ ackAge = [b \in Bridges |-> 0]
    /\ lost = {}
    /\ lostFor = [b \in Bridges |-> 0]
    /\ drops = MaxDrops
    /\ \/ /\ committed = TRUE
          /\ acked = Bridges /\ listed = Bridges
          /\ link = [b \in Bridges |-> "bound"]
       \/ /\ committed = FALSE
          /\ acked = {} /\ listed = {}
          /\ link = [b \in Bridges |-> "open"]

LeaseNext ==
    /\ writer
    /\ \/ BeginLivenessRound \/ CheckFence \/ Heartbeat \/ Tick
       \/ \E b \in Bridges :
             \/ Answer(b) \/ ConfirmLiveness(b)
             \/ Register(b) \/ Acknowledge(b)
             \/ BridgeSeesClose(b) \/ HostSeesClose(b) \/ Connect(b)

LeaseSpec == LeaseInit /\ [][LeaseNext]_clockVars

(***************************************************************************)
(* Properties.                                                             *)
(***************************************************************************)
LeaseTypeOK ==
    /\ writer \in BOOLEAN /\ livenessDue \in BOOLEAN /\ fenceDue \in BOOLEAN
    /\ committed \in BOOLEAN
    /\ leaseAge \in 0..FenceAfter
    /\ renewAge \in 0..RenewEvery
    /\ acked \subseteq Bridges /\ live \subseteq acked
    /\ asked \subseteq Bridges /\ answered \subseteq asked
    /\ link \in [Bridges -> LinkState]
    /\ listed \subseteq Bridges /\ inFlight \subseteq listed /\ lost \subseteq Bridges
    /\ ackAge \in [Bridges -> 0..MaxDelay]
    /\ lostFor \in [Bridges -> 0..Grace]
    /\ drops \in 0..MaxDrops

\* The bridges that would attest the host's absence now (witnessPrimary,
\* claimPromotionVote).
Absent == {b \in lost : lostFor[b] >= Grace}

\* A host is fenced before a strict majority of its bridges can attest or vote
\* that it is absent, so nobody is elected while it still writes
\* (fenceIfQuorumExpired, absenceGraceMs).
FencedFirst == writer => ~IsMajority(Absent)

\* The lease is well formed, only bridges that acknowledged the round count as live, and the
\* host stops in time.
FencedBeforeAbsent == LeaseTypeOK /\ FencedFirst
=============================================================================
