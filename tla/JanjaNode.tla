----------------------------- MODULE JanjaNode -----------------------------
(***************************************************************************)
(* Write authority of a JanjaNode host (apps/janjanode/src): what          *)
(* server.service.ts keeps in its database and in memory about being the   *)
(* writer of the community, and the round of apps/janjanode/src/main.ts    *)
(* that publishes the host's signed record.  Each operator below is one    *)
(* transition of a host; HostFailover joins them to the bridges.           *)
(*                                                                         *)
(* The database survives a crash of the host, the rest does not.           *)
(***************************************************************************)
EXTENDS JanjaBridge, Sequences

CONSTANTS
    PrimaryHost,   \* the host that created the community (epoch 0 writer)
    Trust,         \* [Replicas -> SUBSET Bridges]: replica_witness_bridge_ids
    MaxRecords     \* bound: [Hosts -> Nat], records a host may sign

ASSUME PrimaryAssumption == PrimaryHost \in Hosts

Replicas == Hosts \ {PrimaryHost}

\* A host only promotes under a witness configuration of two bridges or more.
ASSUME TrustAssumption ==
    /\ Trust \in [Replicas -> SUBSET Bridges]
    /\ \A n \in Replicas : Cardinality(Trust[n]) >= 2

VARIABLES
    \* the host's database
    hostEpoch,        \* server_meta.epoch
    writerState,      \* writer_state:<hostId>: "none", "writer" or "fenced"
    chain,            \* host_record_chains: the host's committed records
    certificate,      \* server_meta.promotion_certificate
    signed,           \* how many records the host has signed (gives ids)
    \* the host's memory
    up,               \* the process runs
    writer,           \* ServerService.writer
    resumeEligible,   \* ServerService.writerResumeEligibility # null
    round,            \* the coordinator's round (its record) or NoRecord
    pending,          \* the round is still ServerService.pendingRegistration
    acked             \* round.acked: bridges that confirmed the round

databaseVars == <<hostEpoch, writerState, chain, certificate, signed>>
memoryVars   == <<up, writer, resumeEligible, round, pending, acked>>
hostVars     == <<databaseVars, memoryVars>>

NoCertificate == [primary |-> NoRecord, bridges |-> {}]

CommittedRecords(h) == {chain[h][i] : i \in 1..Len(chain[h])}

IsCommitted(h, r) == r \in CommittedRecords(h)

(***************************************************************************)
(* writerWitnessState: the floor a suspended writer must clear, every      *)
(* election configuration that may still be in use.                        *)
(***************************************************************************)
WitnessBridgeSets == {Bridges} \cup {Trust[n] : n \in Replicas}

\* deviation: one acknowledged bridge is enough to resume
HasAnyAck(S) == S # {}

HasStrictQuorum(S) == \A W \in WitnessBridgeSets : IsMajority(S, W)

(***************************************************************************)
(* createPrimaryRegistration, through ensureRound: a freshly signed        *)
(* successor of the last committed record, unless a round is retained.     *)
(***************************************************************************)
\* deviation: a fenced host still advertises itself as primary
FreshRecordOfFenced(h) ==
    [host  |-> h,
     id    |-> signed[h] + 1,
     seq   |-> Len(chain[h]) + 1,
     prev  |-> IF chain[h] = <<>> THEN 0 ELSE chain[h][Len(chain[h])].id,
     epoch |-> hostEpoch[h],
     role  |-> IF writerState[h] # "none" THEN "primary" ELSE "replica"]

FreshRecord(h) ==
    [host  |-> h,
     id    |-> signed[h] + 1,
     seq   |-> Len(chain[h]) + 1,
     prev  |-> IF chain[h] = <<>> THEN 0 ELSE chain[h][Len(chain[h])].id,
     epoch |-> hostEpoch[h],
     role  |-> IF writer[h] \/ resumeEligible[h] THEN "primary" ELSE "replica"]

SignRecord(h) ==
    /\ signed[h] < MaxRecords[h]
    /\ signed' = [signed EXCEPT ![h] = @ + 1]
    /\ round' = [round EXCEPT ![h] = FreshRecord(h)]
    /\ pending' = [pending EXCEPT ![h] = TRUE]
    /\ acked' = [acked EXCEPT ![h] = {}]

EnsureRound(h) == round[h] = NoRecord /\ SignRecord(h)

\* The heartbeat abandons a committed round and signs the next one; an
\* uncommitted round stays.
RotateRound(h) ==
    /\ round[h] = NoRecord \/ IsCommitted(h, round[h])
    /\ SignRecord(h)

(***************************************************************************)
(* A matching ACK of bridge b for the round: commitPrimaryRegistration on  *)
(* the first one (refused when the round is no longer pending), then       *)
(* resumeWriterAfterRegistrationQuorum.  The ACK counts only while the     *)
(* quorum object is active: the write-authority loop keeps it cleared on a *)
(* host that neither writes nor may resume.                                *)
(***************************************************************************)
AcknowledgeRound(h, b) ==
    LET r     == round[h]
        acks  == acked[h] \cup {b}
        fresh == ~IsCommitted(h, r)
        resumes == /\ resumeEligible[h]
                   /\ pending[h]
                   /\ r.role = "primary"
                   /\ r.epoch = hostEpoch[h]
                   /\ HasStrictQuorum(acks)
    IN  /\ fresh => pending[h]
        /\ chain' = IF fresh THEN [chain EXCEPT ![h] = Append(@, r)] ELSE chain
        /\ acked' = IF writer[h] \/ resumeEligible[h] THEN [acked EXCEPT ![h] = acks] ELSE acked
        /\ writer' = [writer EXCEPT ![h] = @ \/ resumes]
        /\ resumeEligible' = [resumeEligible EXCEPT ![h] = @ /\ ~resumes]
        /\ writerState' = IF resumes THEN [writerState EXCEPT ![h] = "writer"]
                                     ELSE writerState
        /\ UNCHANGED <<hostEpoch, certificate, signed, up, round, pending>>

(***************************************************************************)
(* fencePrimaryWriter, as the coordinator's write-authority lease calls    *)
(* it.  The service drops its pending registration, the coordinator keeps  *)
(* its round.                                                              *)
(***************************************************************************)
FencePrimaryWriter(h) ==
    /\ writer[h]
    /\ writer' = [writer EXCEPT ![h] = FALSE]
    /\ writerState' = [writerState EXCEPT ![h] = "fenced"]
    /\ pending' = [pending EXCEPT ![h] = FALSE]
    /\ UNCHANGED <<hostEpoch, chain, certificate, signed, up, resumeEligible, round, acked>>

(***************************************************************************)
(* observeHigherEpoch: the registration r of another host, certified for   *)
(* the last primary record this host committed at its own epoch, makes     *)
(* this host fence itself at the new epoch and drop the round.             *)
(***************************************************************************)
IsLastPrimaryRecord(h, p) ==
    /\ IsCommitted(h, p)
    /\ p.role = "primary" /\ p.epoch = hostEpoch[h]
    /\ \A q \in CommittedRecords(h) :
         q.role = "primary" /\ q.epoch = hostEpoch[h] => q.seq <= p.seq

ObserveHigherEpoch(h, r, cert) ==
    /\ r.role = "primary"
    /\ r.epoch = hostEpoch[h] + 1
    /\ Cardinality(cert.bridges) >= 2
    /\ IsLastPrimaryRecord(h, cert.primary)
    /\ hostEpoch' = [hostEpoch EXCEPT ![h] = r.epoch]
    /\ writerState' = [writerState EXCEPT ![h] = "fenced"]
    /\ writer' = [writer EXCEPT ![h] = FALSE]
    /\ resumeEligible' = [resumeEligible EXCEPT ![h] = FALSE]
    /\ round' = [round EXCEPT ![h] = NoRecord]
    /\ pending' = [pending EXCEPT ![h] = FALSE]
    /\ acked' = [acked EXCEPT ![h] = {}]
    /\ UNCHANGED <<chain, certificate, signed, up>>

\* deviation: the epoch is raised by two
PromoteSkippingEpoch(n, primary, votes) ==
    /\ ~writer[n]
    /\ primary.epoch = hostEpoch[n]
    /\ IsMajority(votes, Trust[n])
    /\ hostEpoch' = [hostEpoch EXCEPT ![n] = primary.epoch + 2]
    /\ certificate' = [certificate EXCEPT ![n] = [primary |-> primary, bridges |-> votes]]
    /\ writerState' = [writerState EXCEPT ![n] = "writer"]
    /\ writer' = [writer EXCEPT ![n] = TRUE]
    /\ resumeEligible' = [resumeEligible EXCEPT ![n] = FALSE]
    /\ round' = [round EXCEPT ![n] = NoRecord]
    /\ pending' = [pending EXCEPT ![n] = FALSE]
    /\ acked' = [acked EXCEPT ![n] = {}]
    /\ UNCHANGED <<chain, signed, up>>

(***************************************************************************)
(* promoteFromWitness, then publishPromotedWriter: a strict majority of    *)
(* the trusted bridges voted for n against the checkpoint `primary`.       *)
(***************************************************************************)
PromoteFromWitness(n, primary, votes) ==
    /\ ~writer[n]
    /\ primary.epoch = hostEpoch[n]
    /\ IsMajority(votes, Trust[n])
    /\ hostEpoch' = [hostEpoch EXCEPT ![n] = primary.epoch + 1]
    /\ certificate' = [certificate EXCEPT ![n] = [primary |-> primary, bridges |-> votes]]
    /\ writerState' = [writerState EXCEPT ![n] = "writer"]
    /\ writer' = [writer EXCEPT ![n] = TRUE]
    /\ resumeEligible' = [resumeEligible EXCEPT ![n] = FALSE]
    /\ round' = [round EXCEPT ![n] = NoRecord]
    /\ pending' = [pending EXCEPT ![n] = FALSE]
    /\ acked' = [acked EXCEPT ![n] = {}]
    /\ UNCHANGED <<chain, signed, up>>

\* The process dies; the database stays.
HostCrash(h) ==
    /\ up[h]
    /\ up' = [up EXCEPT ![h] = FALSE]
    /\ writer' = [writer EXCEPT ![h] = FALSE]
    /\ resumeEligible' = [resumeEligible EXCEPT ![h] = FALSE]
    /\ round' = [round EXCEPT ![h] = NoRecord]
    /\ pending' = [pending EXCEPT ![h] = FALSE]
    /\ acked' = [acked EXCEPT ![h] = {}]
    /\ UNCHANGED databaseVars

\* bootstrap -> restoreWriterState with a non-empty witness floor: a persisted
\* writer comes back read-only and eligible to resume, any other host read-only.
HostBoot(h) ==
    /\ ~up[h]
    /\ up' = [up EXCEPT ![h] = TRUE]
    /\ resumeEligible' = [resumeEligible EXCEPT ![h] = (writerState[h] = "writer")]
    /\ UNCHANGED <<databaseVars, writer, round, pending, acked>>

=============================================================================
