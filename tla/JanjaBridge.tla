---------------------------- MODULE JanjaBridge ----------------------------
(***************************************************************************)
(* The election ledger of a set of JanjaBridges for one community          *)
(* (apps/rendezvous/src/main.ts): the high-water mark of every host's      *)
(* signed record chain, the one durable promotion vote per election epoch, *)
(* and what a bridge knows of a host's socket.  The first two survive a    *)
(* restart of the bridge (they are appended to its state file before they  *)
(* are applied), the third does not.                                       *)
(*                                                                         *)
(* A signed host record is                                                 *)
(*   [host, id, seq, prev, epoch, role]                                    *)
(* where id stands for the record hash (no two records of a host share     *)
(* one) and prev for previousRecordHash (0 when it is null).  Grants are   *)
(* taken as accepted and never revoked (BridgeLedger has revocation), and  *)
(* a record as young enough to verify: its own ttl is left out.           *)
(***************************************************************************)
EXTENDS Naturals, FiniteSets

CONSTANTS
    Hosts,      \* host ids that hold a grant in the community
    Bridges,    \* the JanjaBridges of the community; bridge ids are ordered
    MaxEpoch,   \* bound: epochs 0..MaxEpoch
    NoRecord,   \* no high-water mark / no record
    NoVote      \* no promotion vote

ASSUME BridgesAssumption ==
    /\ Bridges \subseteq Nat
    /\ IsFiniteSet(Bridges)
    /\ Cardinality(Bridges) <= 3       \* targets.slice(0, 3)

ASSUME BoundsAssumption == MaxEpoch \in Nat \ {0}

VARIABLES
    highWaterMarks,   \* [Bridges -> [Hosts -> Record \cup {NoRecord}]]
    promotionVotes,   \* [Bridges -> [Epochs -> Vote \cup {NoVote}]]
    presence,         \* [Bridges -> [Hosts -> Presence]], volatile
    listed            \* [Bridges -> SUBSET Hosts], volatile: the hosts whose last
                      \* record is still in the directory `records`

bridgeVars == <<highWaterMarks, promotionVotes, presence, listed>>

Epochs == 0..MaxEpoch
Roles  == {"primary", "replica"}

Record == [host: Hosts, id: Nat, seq: Nat, prev: Nat, epoch: Epochs, role: Roles]

Vote == [candidate: Hosts, primary: Record]

ASSUME NullAssumption == NoRecord \notin Record /\ NoVote \notin Vote

\* unknown: no socket and no hostDisconnectedAt entry (never seen since boot);
\* bound: authenticated socket open; gone: disconnected, grace running;
\* absent: disconnected for at least absenceGraceMs.
Presence == {"unknown", "bound", "gone", "absent"}

\* A promotion certificate: the receipts of `bridges` for one candidate,
\* all bound to the same primary checkpoint.
Certificate == [primary: Record, bridges: SUBSET Bridges]

(***************************************************************************)
(* Quorums.                                                                *)
(***************************************************************************)

\* At least floor(|T| / 2) + 1 members of T are in S.
IsMajority(S, T) == Cardinality(S \cap T) >= (Cardinality(T) \div 2) + 1

(***************************************************************************)
(* What a bridge derives from its high-water marks.                        *)
(***************************************************************************)
Marks(b) == {highWaterMarks[b][h] : h \in Hosts} \ {NoRecord}

IsHighestEpoch(b, e) ==
    /\ \E m \in Marks(b) : m.epoch = e
    /\ \A m \in Marks(b) : m.epoch <= e

\* The primary checkpoint a witness or a vote is bound to: highest epoch, then
\* highest sequence, among the marks whose last record had the primary role.
IsKnownPrimary(b, r) ==
    /\ r \in Marks(b)
    /\ r.role = "primary"
    /\ \A m \in Marks(b) :
         m.role = "primary" =>
            \/ m.epoch < r.epoch
            \/ m.epoch = r.epoch /\ m.seq <= r.seq

\* deviation: a certificate for an earlier checkpoint of the primary still counts
CertificateOfAnyCheckpoint(b, r, cert) ==
    /\ Cardinality(cert.bridges) >= 2
    /\ IsHighestEpoch(b, cert.primary.epoch)
    /\ b \in cert.bridges
    /\ r.epoch = cert.primary.epoch + 1
    /\ promotionVotes[b][r.epoch] = [candidate |-> r.host, primary |-> cert.primary]

(***************************************************************************)
(* validPromotionCertificate: at least two receipts, one of them this      *)
(* bridge's own durable vote, all bound to the candidate and to the        *)
(* primary checkpoint this bridge holds now at its highest epoch.          *)
(***************************************************************************)
ValidPromotionCertificate(b, r, cert) ==
    /\ Cardinality(cert.bridges) >= 2
    /\ IsKnownPrimary(b, cert.primary)
    /\ IsHighestEpoch(b, cert.primary.epoch)
    /\ b \in cert.bridges
    /\ r.epoch = cert.primary.epoch + 1
    /\ promotionVotes[b][r.epoch] = [candidate |-> r.host, primary |-> cert.primary]

(***************************************************************************)
(* validateRegistration.  An empty ledger takes an initial checkpoint; a   *)
(* known host must repeat its mark or extend it by one; the epoch may stay *)
(* or grow by one, and only a PRIMARY record that raises it needs a        *)
(* certificate.                                                            *)
(***************************************************************************)
ContiguousRecord(b, r) ==
    LET previous == highWaterMarks[b][r.host]
    IN IF previous = NoRecord
       THEN r.seq = 1 /\ r.prev = 0
       ELSE \/ r = previous
            \/ /\ r.seq = previous.seq + 1
               /\ r.prev = previous.id
               /\ r.epoch >= previous.epoch

ValidateRegistration(b, r, cert) ==
    /\ ContiguousRecord(b, r)
    /\ Marks(b) = {} => r.epoch <= 1
    /\ \A e \in Epochs :
         IsHighestEpoch(b, e) =>
            /\ r.epoch \in {e, e + 1}
            /\ (r.role = "primary" /\ r.epoch > e)
                   => ValidPromotionCertificate(b, r, cert)

(***************************************************************************)
(* Steps of a bridge.  The caller supplies the other side of the socket.   *)
(***************************************************************************)

\* commitRegistration, after validateRegistration ran again in proveRegistration:
\* append the mark, apply it, list the record, bind the socket and forget the
\* disconnection.
CommitRegistration(b, r) ==
    /\ highWaterMarks' = [highWaterMarks EXCEPT ![b][r.host] = r]
    /\ presence' = [presence EXCEPT ![b][r.host] = "bound"]
    /\ listed' = [listed EXCEPT ![b] = @ \cup {r.host}]
    /\ UNCHANGED promotionVotes

\* deviation: the time of the disconnection is not kept
UnbindWithoutTime(b, h) ==
    /\ presence' = [presence EXCEPT ![b][h] = IF @ = "bound" THEN "unknown" ELSE @]
    /\ UNCHANGED <<highWaterMarks, promotionVotes, listed>>

\* unbindSocket when the host's bound socket closes.
UnbindSocket(b, h) ==
    /\ presence' = [presence EXCEPT ![b][h] = IF @ = "bound" THEN "gone" ELSE @]
    /\ UNCHANGED <<highWaterMarks, promotionVotes, listed>>

\* cleanup when the listed record of h is older than its ttl: the record leaves
\* the directory and the socket authorised by it is unbound.
RecordExpires(b, h) ==
    /\ h \in listed[b]
    /\ listed' = [listed EXCEPT ![b] = @ \ {h}]
    /\ presence' = [presence EXCEPT ![b][h] = IF @ = "bound" THEN "gone" ELSE @]
    /\ UNCHANGED <<highWaterMarks, promotionVotes>>

\* absenceGraceMs passes after a recorded disconnection.
AbsenceGraceElapses(b, h) ==
    /\ presence[b][h] = "gone"
    /\ presence' = [presence EXCEPT ![b][h] = "absent"]
    /\ UNCHANGED <<highWaterMarks, promotionVotes, listed>>

\* deviation: no grace period, a closed socket is absence
OnlineWhileBound(b, h) == presence[b][h] = "bound"

\* witnessPrimary: signs primaryOnline = TRUE unless the host is absent.
PrimaryOnline(b, h) == presence[b][h] # "absent"

\* deviation: an earlier vote of the same epoch is overwritten
ConflictIgnoringVotes(b, n, primary) ==
    \/ ~IsKnownPrimary(b, primary)
    \/ PrimaryOnline(b, primary.host)

\* claimPromotionVote: what makes the bridge answer `conflict`.
VoteConflict(b, n, primary) ==
    \/ promotionVotes[b][primary.epoch + 1] \notin
          {NoVote, [candidate |-> n, primary |-> primary]}
    \/ ~IsKnownPrimary(b, primary)
    \/ PrimaryOnline(b, primary.host)

\* deviation: the receipt is signed but the vote is not recorded
GrantUnrecordedVote(b, n, primary) ==
    /\ ~VoteConflict(b, n, primary)
    /\ UNCHANGED bridgeVars

\* claimPromotionVote: the vote is durable before its receipt is signed.
GrantPromotionVote(b, n, primary) ==
    /\ ~VoteConflict(b, n, primary)
    /\ promotionVotes' = [promotionVotes EXCEPT ![b][primary.epoch + 1] =
                              [candidate |-> n, primary |-> primary]]
    /\ UNCHANGED <<highWaterMarks, presence, listed>>

\* deviation: the high-water marks were never written to the state file
RestartWithoutMarks(b) ==
    /\ highWaterMarks' = [highWaterMarks EXCEPT ![b] = [h \in Hosts |-> NoRecord]]
    /\ presence' = [presence EXCEPT ![b] = [h \in Hosts |-> "unknown"]]
    /\ listed' = [listed EXCEPT ![b] = {}]
    /\ UNCHANGED promotionVotes

\* loadRendezvousState after a crash: marks and votes come back from the state
\* file, the directory, sockets and disconnection times do not.
BridgeRestart(b) ==
    /\ presence' = [presence EXCEPT ![b] = [h \in Hosts |-> "unknown"]]
    /\ listed' = [listed EXCEPT ![b] = {}]
    /\ UNCHANGED <<highWaterMarks, promotionVotes>>

=============================================================================
