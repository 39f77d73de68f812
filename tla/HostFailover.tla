---------------------------- MODULE HostFailover ----------------------------
(***************************************************************************)
(* Failover of a JanjaCord community: the hosts of JanjaNode, the bridges  *)
(* of JanjaBridge, and the sockets between them.  The primary publishes a  *)
(* chain of signed records to every bridge and writes while a strict       *)
(* majority confirms it; a replica that cannot reach the primary collects  *)
(* signed absence witnesses, then durable votes, and promotes itself.      *)
(*                                                                         *)
(* One registration exchange (cursor, begin, challenge, prove) is one step *)
(* up to the bridge's durable append; its ACK is a step of its own that    *)
(* may be late or lost.  Everything a host and a bridge decide between is  *)
(* interleaved: sockets break on one side first, hosts and bridges crash   *)
(* and restart, records expire, votes are granted and their receipts lost. *)
(***************************************************************************)
EXTENDS JanjaNode

CONSTANTS
    Publishers,        \* hosts configured with rendezvous targets
    MaxCrashes,        \* bound: [Hosts -> Nat]
    MaxDrops,          \* bound: sockets that break with both ends alive
    MaxBridgeRestarts, \* bound
    RequestsFail,      \* BOOLEAN: a replica's requests to the primary or to a
                       \* bridge may fail with both ends alive
    RecordsExpire      \* BOOLEAN: directory entries may outlive their ttl

ASSUME EnvironmentAssumption ==
    /\ Publishers \subseteq Hosts
    /\ MaxCrashes \in [Hosts -> Nat]
    /\ MaxDrops \in Nat /\ MaxBridgeRestarts \in Nat
    /\ RequestsFail \in BOOLEAN /\ RecordsExpire \in BOOLEAN

VARIABLES
    link,       \* [Hosts -> [Bridges -> LinkState]]: the current socket
    acks,       \* [Hosts -> SUBSET Bridges]: ACKs of the round in flight
    election,   \* [Replicas -> Election]: bridgeWitnessQuorum in progress
    spent,      \* [Replicas -> BOOLEAN]: `fenced` of startReplicaLoop
    faults      \* how many faults are left

coordinatorVars == <<link, acks, election, spent>>
vars == <<bridgeVars, hostVars, coordinatorVars, faults>>

\* down: none; open: connected, nothing registered through it; bound: the
\* bridge bound the host to it; half: closed at the bridge, not yet at the host.
LinkState == {"down", "open", "bound", "half"}

Election == [phase: {"idle", "witness", "claim"},
             target: Record \cup {NoRecord},
             absent: SUBSET Bridges,    \* bridges whose witness says absent
             tried: SUBSET Bridges,     \* bridges done with in this phase
             granted: SUBSET Bridges]   \* receipts in hand

NoElection == [phase |-> "idle", target |-> NoRecord,
               absent |-> {}, tried |-> {}, granted |-> {}]

Faults == [crash: [Hosts -> Nat], drop: Nat, restart: Nat]

(***************************************************************************)
(* The community when its primary is the healthy writer of epoch 0 and the *)
(* replicas have just been enrolled.                                       *)
(***************************************************************************)
FirstRecord == [host |-> PrimaryHost, id |-> 1, seq |-> 1, prev |-> 0,
                epoch |-> 0, role |-> "primary"]

ByHost(forPrimary, forReplica) ==
    [h \in Hosts |-> IF h = PrimaryHost THEN forPrimary ELSE forReplica]

Init ==
    /\ highWaterMarks = [b \in Bridges |-> ByHost(FirstRecord, NoRecord)]
    /\ promotionVotes = [b \in Bridges |-> [e \in Epochs |-> NoVote]]
    /\ presence = [b \in Bridges |-> ByHost("bound", "unknown")]
    /\ listed = [b \in Bridges |-> {PrimaryHost}]
    /\ hostEpoch = [h \in Hosts |-> 0]
    /\ writerState = ByHost("writer", "none")
    /\ chain = ByHost(<<FirstRecord>>, <<>>)
    /\ certificate = [h \in Hosts |-> NoCertificate]
    /\ signed = ByHost(1, 0)
    /\ up = [h \in Hosts |-> TRUE]
    /\ writer = ByHost(TRUE, FALSE)
    /\ resumeEligible = [h \in Hosts |-> FALSE]
    /\ round = ByHost(FirstRecord, NoRecord)
    /\ pending = ByHost(TRUE, FALSE)
    /\ acked = ByHost(Bridges, {})
    /\ link = ByHost([b \in Bridges |-> "bound"], [b \in Bridges |-> "down"])
    /\ acks = [h \in Hosts |-> {}]
    /\ election = [n \in Replicas |-> NoElection]
    /\ spent = [n \in Replicas |-> FALSE]
    /\ faults = [crash |-> MaxCrashes, drop |-> MaxDrops, restart |-> MaxBridgeRestarts]

(***************************************************************************)
(* Sockets.                                                                *)
(***************************************************************************)
Connected(h, b) == link[h][b] \in {"open", "bound"}

SetLink(h, b, state) == link' = [link EXCEPT ![h][b] = state]

\* A socket with both ends alive breaks: one fault.
SocketFault(h, b) ==
    /\ Connected(h, b)
    /\ faults.drop > 0
    /\ faults' = [faults EXCEPT !.drop = @ - 1]

Connect(h, b) ==
    /\ h \in Publishers
    /\ up[h]
    /\ link[h][b] = "down"
    /\ SetLink(h, b, "open")
    /\ UNCHANGED <<bridgeVars, hostVars, acks, election, spent, faults>>

\* scheduleReconnect: the bridge no longer counts and nothing arrives any more.
HostSeesClose(h, b) ==
    /\ \/ link[h][b] = "half" /\ UNCHANGED faults
       \/ SocketFault(h, b)
    /\ SetLink(h, b, "down")
    /\ acked' = [acked EXCEPT ![h] = @ \ {b}]
    /\ acks' = [acks EXCEPT ![h] = @ \ {b}]
    /\ UNCHANGED <<bridgeVars, databaseVars, up, writer, resumeEligible, round, pending,
                   election, spent>>

\* The bridge's close handler, for the current socket or for an older one the
\* host has already given up.
BridgeSeesClose(h, b) ==
    \/ /\ SocketFault(h, b)
       /\ SetLink(h, b, "half")
       /\ IF link[h][b] = "bound" THEN UnbindSocket(b, h) ELSE UNCHANGED bridgeVars
       /\ UNCHANGED <<hostVars, acks, election, spent>>
    \/ /\ presence[b][h] = "bound"
       /\ link[h][b] # "bound"
       /\ UnbindSocket(b, h)
       /\ UNCHANGED <<hostVars, coordinatorVars, faults>>

(***************************************************************************)
(* Registration.                                                           *)
(***************************************************************************)

\* requestCursor -> ensureRound.
SignRound(h) ==
    /\ up[h]
    /\ round[h] = NoRecord
    /\ \E b \in Bridges : Connected(h, b)
    /\ EnsureRound(h)
    /\ UNCHANGED <<bridgeVars, hostEpoch, writerState, chain, certificate, up, writer,
                   resumeEligible, coordinatorVars, faults>>

\* publish: the committed record the bridge lacks, else the round when the
\* bridge's cursor has come to it.
Publication(h, b) ==
    LET mark == highWaterMarks[b][h]
        next == IF mark = NoRecord THEN 1 ELSE mark.seq + 1
    IN  IF next <= Len(chain[h]) THEN {chain[h][next]}
        ELSE {r \in {round[h]} \ {NoRecord} : r.seq = next}

\* provePrimaryRegistration signs for the pending record and committed ones.
CanProve(h, r) == IsCommitted(h, r) \/ (pending[h] /\ r = round[h])

SentCertificate(h, r) == IF r.role = "primary" THEN certificate[h] ELSE NoCertificate

Register(h, b) ==
    /\ up[h]
    /\ Connected(h, b)
    /\ round[h] # NoRecord
    /\ b \notin acks[h]
    /\ \E r \in Publication(h, b) :
         /\ CanProve(h, r)
         /\ ValidateRegistration(b, r, SentCertificate(h, r))
         /\ CommitRegistration(b, r)
         /\ acks' = IF r = round[h] THEN [acks EXCEPT ![h] = @ \cup {b}] ELSE acks
    /\ SetLink(h, b, "bound")
    /\ UNCHANGED <<hostVars, election, spent, faults>>

\* register.result for a publication of the round.  The handler applies it to
\* the round the host has now; without one, or when the service refuses to
\* commit, the result is dropped.
ReceiveAck(h, b) ==
    /\ b \in acks[h]
    /\ acks' = [acks EXCEPT ![h] = @ \ {b}]
    /\ IF round[h] # NoRecord /\ (IsCommitted(h, round[h]) \/ pending[h])
       THEN AcknowledgeRound(h, b)
       ELSE UNCHANGED hostVars
    /\ UNCHANGED <<bridgeVars, link, election, spent, faults>>

\* The renewal timer; every exchange of the old round is superseded.
Heartbeat(h) ==
    /\ up[h]
    /\ RotateRound(h)
    /\ acks' = [acks EXCEPT ![h] = {}]
    /\ UNCHANGED <<bridgeVars, hostEpoch, writerState, chain, certificate, up, writer,
                   resumeEligible, link, election, spent, faults>>

\* The lease runs out: no strict majority has answered for primaryFenceMs.
LiveBridges(h) == {b \in acked[h] : link[h][b] = "bound"}

Fence(h) ==
    /\ up[h]
    /\ ~IsMajority(LiveBridges(h), Bridges)
    /\ FencePrimaryWriter(h)
    /\ UNCHANGED <<bridgeVars, coordinatorVars, faults>>

\* host.epoch, or higherRegistration in a refused registration.
ObserveHigher(h, b) ==
    /\ up[h]
    /\ Connected(h, b)
    /\ \E g \in listed[b] \ {h} :
         ObserveHigherEpoch(h, highWaterMarks[b][g], certificate[g])
    /\ UNCHANGED <<bridgeVars, coordinatorVars, faults>>

(***************************************************************************)
(* Time at a bridge.  Two facts about the timers are built in here: a      *)
(* writer is fenced before a majority of the bridges can have seen it      *)
(* absent for absenceGraceMs, which WriteLease proves of the clocks, and a *)
(* host renews a record it holds an ACK for (every 2 min) before its ttl   *)
(* (5 min), which is assumed.                                              *)
(***************************************************************************)
AbsentAt(h) == {b \in Bridges : presence[b][h] = "absent"}

GraceElapses(h, b) ==
    /\ writer[h] => ~IsMajority(AbsentAt(h) \cup {b}, Bridges)
    /\ AbsenceGraceElapses(b, h)
    /\ UNCHANGED <<hostVars, coordinatorVars, faults>>

Expire(h, b) ==
    /\ RecordsExpire
    /\ b \notin LiveBridges(h)
    /\ RecordExpires(b, h)
    /\ link' = [link EXCEPT ![h][b] = IF @ = "bound" THEN "open" ELSE @]
    /\ UNCHANGED <<hostVars, acks, election, spent, faults>>

(***************************************************************************)
(* Crashes.                                                                *)
(***************************************************************************)
CrashBridge(b) ==
    /\ faults.restart > 0
    /\ faults' = [faults EXCEPT !.restart = @ - 1]
    /\ BridgeRestart(b)
    /\ link' = [h \in Hosts |->
                  [link[h] EXCEPT ![b] = IF Connected(h, b) THEN "half" ELSE @]]
    /\ UNCHANGED <<hostVars, acks, election, spent>>

Crash(h) ==
    /\ faults.crash[h] > 0
    /\ faults' = [faults EXCEPT !.crash[h] = @ - 1]
    /\ HostCrash(h)
    /\ link' = [link EXCEPT ![h] = [b \in Bridges |-> "down"]]
    /\ acks' = [acks EXCEPT ![h] = {}]
    /\ election' = [n \in Replicas |-> IF n = h THEN NoElection ELSE election[n]]
    /\ spent' = [n \in Replicas |-> spent[n] /\ n # h]
    /\ UNCHANGED bridgeVars

Boot(h) ==
    /\ HostBoot(h)
    /\ UNCHANGED <<bridgeVars, coordinatorVars, faults>>

(***************************************************************************)
(* Election (startReplicaLoop, bridgeWitnessQuorum).                       *)
(***************************************************************************)

\* resolvePrimaryRegistration: the first trusted bridge that answers with a
\* record of the primary fixes the checkpoint of the whole attempt.
Listing(n) == {b \in Trust[n] : PrimaryHost \in listed[b]}

Resolvable(n) ==
    IF RequestsFail THEN Listing(n) ELSE {b \in Listing(n) : \A c \in Listing(n) : b <= c}

SetElection(n, e) ==
    /\ election' = [election EXCEPT ![n] = e]
    /\ UNCHANGED <<hostVars, link, acks, spent, faults>>

StartElection(n) ==
    /\ up[n]
    /\ ~writer[n] /\ ~resumeEligible[n] /\ ~spent[n]
    /\ election[n].phase = "idle"
    /\ RequestsFail \/ ~up[PrimaryHost]
    /\ \E b \in Resolvable(n) :
         /\ highWaterMarks[b][PrimaryHost].role = "primary"
         /\ highWaterMarks[b][PrimaryHost].epoch = hostEpoch[n]
         /\ SetElection(n, [NoElection EXCEPT !.phase = "witness",
                                             !.target = highWaterMarks[b][PrimaryHost]])
    /\ UNCHANGED bridgeVars

\* Every trusted bridge is asked.  One that still knows the same checkpoint
\* signs whether its host is absent, and a single "online" vetoes the attempt;
\* any other answer, or none, counts as unavailable.
Awaited(n, b) ==
    /\ election[n].phase = "witness"
    /\ b \in Trust[n] \ election[n].tried

Answered(n, b) == [election[n] EXCEPT !.tried = @ \cup {b}]

WitnessAbsent(n, b) ==
    /\ Awaited(n, b)
    /\ IsKnownPrimary(b, election[n].target)
    /\ ~PrimaryOnline(b, PrimaryHost)
    /\ SetElection(n, [Answered(n, b) EXCEPT !.absent = @ \cup {b}])
    /\ UNCHANGED bridgeVars

WitnessOnline(n, b) ==
    /\ Awaited(n, b)
    /\ IsKnownPrimary(b, election[n].target)
    /\ PrimaryOnline(b, PrimaryHost)
    /\ SetElection(n, NoElection)
    /\ UNCHANGED bridgeVars

WitnessUnavailable(n, b) ==
    /\ Awaited(n, b)
    /\ RequestsFail \/ ~IsKnownPrimary(b, election[n].target)
    /\ SetElection(n, Answered(n, b))
    /\ UNCHANGED bridgeVars

BeginClaims(n) ==
    /\ election[n].phase = "witness"
    /\ election[n].tried = Trust[n]
    /\ IsMajority(election[n].absent, Trust[n])
    /\ SetElection(n, [election[n] EXCEPT !.phase = "claim", !.tried = {}])
    /\ UNCHANGED bridgeVars

Unclaimed(n) == election[n].absent \ election[n].tried

\* Claims go to the absent-reporting bridges one by one, in bridge order.
NextClaim(n, b) ==
    /\ election[n].phase = "claim"
    /\ b \in Unclaimed(n)
    /\ \A c \in Unclaimed(n) : b <= c

\* The receipt may be lost after the vote is durable.
ClaimGranted(n, b) ==
    /\ NextClaim(n, b)
    /\ election[n].target.epoch < MaxEpoch
    /\ GrantPromotionVote(b, n, election[n].target)
    /\ \/ SetElection(n, [Answered(n, b) EXCEPT !.granted = @ \cup {b}])
       \/ RequestsFail /\ SetElection(n, Answered(n, b))

ClaimUnavailable(n, b) ==
    /\ NextClaim(n, b)
    /\ RequestsFail
    /\ SetElection(n, Answered(n, b))
    /\ UNCHANGED bridgeVars

\* The first conflict ends the claims of this attempt.
ClaimConflict(n, b) ==
    /\ NextClaim(n, b)
    /\ VoteConflict(b, n, election[n].target)
    /\ SetElection(n, [election[n] EXCEPT !.tried = election[n].absent])
    /\ UNCHANGED bridgeVars

Promote(n) ==
    /\ election[n].phase = "claim"
    /\ Unclaimed(n) = {}
    /\ election[n].target.epoch < MaxEpoch
    /\ PromoteFromWitness(n, election[n].target, election[n].granted)
    /\ spent' = [spent EXCEPT ![n] = TRUE]
    /\ election' = [election EXCEPT ![n] = NoElection]
    /\ acks' = [acks EXCEPT ![n] = {}]
    /\ UNCHANGED <<bridgeVars, link, faults>>

\* Without a quorum of witnesses or of receipts the tick ends.
AbandonElection(n) ==
    /\ \/ /\ election[n].phase = "witness"
          /\ election[n].tried = Trust[n]
          /\ ~IsMajority(election[n].absent, Trust[n])
       \/ /\ election[n].phase = "claim"
          /\ Unclaimed(n) = {}
          /\ ~IsMajority(election[n].granted, Trust[n])
    /\ SetElection(n, NoElection)
    /\ UNCHANGED bridgeVars

-----------------------------------------------------------------------------
HostBridgeStep(h, b) ==
    \/ Connect(h, b) \/ HostSeesClose(h, b) \/ BridgeSeesClose(h, b)
    \/ Register(h, b) \/ ReceiveAck(h, b) \/ ObserveHigher(h, b)
    \/ GraceElapses(h, b) \/ Expire(h, b)

HostStep(h) == SignRound(h) \/ Heartbeat(h) \/ Fence(h) \/ Crash(h) \/ Boot(h)

AskStep(n, b) ==
    \/ WitnessAbsent(n, b) \/ WitnessOnline(n, b) \/ WitnessUnavailable(n, b)
    \/ ClaimGranted(n, b) \/ ClaimUnavailable(n, b) \/ ClaimConflict(n, b)

ElectionStep(n) ==
    StartElection(n) \/ BeginClaims(n) \/ Promote(n) \/ AbandonElection(n)

Next ==
    \/ \E h \in Hosts, b \in Bridges : HostBridgeStep(h, b)
    \/ \E h \in Hosts : HostStep(h)
    \/ \E n \in Replicas, b \in Bridges : AskStep(n, b)
    \/ \E n \in Replicas : ElectionStep(n)
    \/ \E b \in Bridges : CrashBridge(b)

Spec == Init /\ [][Next]_vars

(***************************************************************************)
(* Fairness.  The replica loop runs on a timer and each of its requests    *)
(* has a timeout; a bridge's event loop runs its close handlers, and its   *)
(* clock advances.  Nothing is assumed of faults, of reboots, or of what   *)
(* the primary does.                                                       *)
(***************************************************************************)
ReplicaLoop(n) == ElectionStep(n) \/ \E b \in Bridges : AskStep(n, b)

BridgeClock(h, b) == (BridgeSeesClose(h, b) /\ UNCHANGED link) \/ GraceElapses(h, b)

Fairness ==
    /\ \A n \in Replicas : WF_vars(ReplicaLoop(n))
    /\ \A b \in Bridges : WF_vars(BridgeClock(PrimaryHost, b))

FairSpec == Spec /\ Fairness

(***************************************************************************)
(* Invariants.                                                             *)
(***************************************************************************)

BridgesTypeOK ==
    /\ highWaterMarks \in [Bridges -> [Hosts -> Record \cup {NoRecord}]]
    /\ promotionVotes \in [Bridges -> [Epochs -> Vote \cup {NoVote}]]
    /\ presence \in [Bridges -> [Hosts -> Presence]]
    /\ listed \in [Bridges -> SUBSET Hosts]

DatabasesTypeOK ==
    /\ hostEpoch \in [Hosts -> Epochs]
    /\ writerState \in [Hosts -> {"none", "writer", "fenced"}]
    /\ chain \in [Hosts -> Seq(Record)]
    /\ certificate \in [Hosts -> Certificate \cup {NoCertificate}]
    /\ signed \in [Hosts -> Nat]

MemoryTypeOK ==
    /\ up \in [Hosts -> BOOLEAN]
    /\ writer \in [Hosts -> BOOLEAN]
    /\ resumeEligible \in [Hosts -> BOOLEAN]
    /\ round \in [Hosts -> Record \cup {NoRecord}]
    /\ pending \in [Hosts -> BOOLEAN]
    /\ acked \in [Hosts -> SUBSET Bridges]

CoordinatorsTypeOK ==
    /\ link \in [Hosts -> [Bridges -> LinkState]]
    /\ acks \in [Hosts -> SUBSET Bridges]
    /\ election \in [Replicas -> Election]
    /\ spent \in [Replicas -> BOOLEAN]

TypeOK ==
    /\ BridgesTypeOK /\ DatabasesTypeOK /\ MemoryTypeOK /\ CoordinatorsTypeOK
    /\ faults \in Faults

\* What the shape of the steps adds to the types: a listed host has a mark, and
\* an attempt in progress has a checkpoint and only involves trusted bridges.
ListedHaveMarks ==
    \A b \in Bridges : \A h \in listed[b] : highWaterMarks[b][h] # NoRecord

ElectionShape ==
    \A n \in Replicas :
        /\ election[n].phase # "idle" => election[n].target \in Record
        /\ election[n].absent \subseteq Trust[n]
        /\ election[n].granted \subseteq Trust[n]

TypeInv == TypeOK /\ ListedHaveMarks /\ ElectionShape

Promoted(n) == certificate[n] # NoCertificate

\* Two replicas are never promoted to the same epoch, whatever is lost, delayed,
\* partitioned or restarted (claimPromotionVote, promoteFromWitness).
ElectionSafety ==
    \A n, m \in Replicas :
        /\ Promoted(n) /\ Promoted(m)
        /\ certificate[n].primary.epoch = certificate[m].primary.epoch
        => n = m

\* Every receipt in a stored promotion certificate is still matched by the
\* durable vote of the bridge that signed it, restarts included.
CertificateBacked ==
    \A n \in Replicas : Promoted(n) =>
        \A b \in certificate[n].bridges :
            promotionVotes[b][certificate[n].primary.epoch + 1] =
                [candidate |-> n, primary |-> certificate[n].primary]

\* All bridges that list a primary for an epoch list the same host, whoever
\* restarted, voted or caught up late (validateRegistration).
PrimaryAgreement ==
    \A b, c \in Bridges : \A r \in Marks(b), s \in Marks(c) :
        r.role = "primary" /\ s.role = "primary" /\ r.epoch = s.epoch
            => r.host = s.host

\* Two hosts never hold a write lease that a strict majority of live sockets
\* confirms, even when the primary restarts in the middle of an election
\* (resumeWriterAfterRegistrationQuorum, RegistrationWriteAuthorityLease).
ConfirmedWriter(h) == writer[h] /\ IsMajority(LiveBridges(h), Bridges)

ConfirmedWriterExclusive ==
    \A g, h \in Hosts : ConfirmedWriter(g) /\ ConfirmedWriter(h) => g = h

\* At most one running host accepts commands (ServerService.canAcceptCommand).
SingleWriter ==
    \A g, h \in Hosts : writer[g] /\ writer[h] => g = h

(***************************************************************************)
(* What a step may never do.                                               *)
(***************************************************************************)

\* A restarted primary whose ACKs all came over sockets that are still bound
\* does not resume once a majority of the bridges lists a successor.
Succeeded(h) ==
    IsMajority({b \in Bridges : \E m \in Marks(b) :
                   m.role = "primary" /\ m.epoch > hostEpoch[h]}, Bridges)

ResumesUnlessSucceeded ==
    [][\A h \in Hosts :
         resumeEligible[h] /\ writer'[h] /\ (\A b \in acked'[h] : link[h][b] = "bound")
            => ~Succeeded(h)]_vars

(***************************************************************************)
(* The abstract specification: the leader of epoch 0 is the primary that   *)
(* created the community, the leader of a later epoch the replica whose    *)
(* stored certificate gives it that epoch; a bridge has reached the epochs *)
(* up to the highest of its marks.                                         *)
(***************************************************************************)
Leaders ==
    [e \in Epochs |->
        IF e = 0 THEN {PrimaryHost}
        ELSE {n \in Replicas : Promoted(n) /\ certificate[n].primary.epoch + 1 = e}]

Adopted == [b \in Bridges |-> {e \in Epochs : \E m \in Marks(b) : e <= m.epoch}]

Abstract == INSTANCE EpochElection WITH
    Founder <- PrimaryHost, leaders <- Leaders, adopted <- Adopted

\* Failover implements EpochElection: an epoch is never given twice or taken
\* back, and no bridge moves to an epoch nobody was elected to.
ImplementsElection == Abstract!Spec

(***************************************************************************)
(* Liveness.                                                               *)
(***************************************************************************)

PrimaryStaysDown == <>[]~up[PrimaryHost]

\* The crash left every bridge with the same checkpoint of the primary, still
\* in its directory.
SettledCheckpoint ==
    \A b, c \in Bridges :
        /\ highWaterMarks[b][PrimaryHost] = highWaterMarks[c][PrimaryHost]
        /\ highWaterMarks[b][PrimaryHost].role = "primary"
        /\ PrimaryHost \in listed[b]

SomeReplicaPromoted == \E n \in Replicas : Promoted(n)

\* A primary that dies with its bridges agreeing on its last record is replaced,
\* however the replicas' attempts interleave (startReplicaLoop).
SettledCrashIsSucceeded ==
    PrimaryStaysDown /\ <>[]SettledCheckpoint => <>SomeReplicaPromoted
=============================================================================
