------------------------------- MODULE Replica -------------------------------
(***************************************************************************)
(* The replicas of a community: the grants that make a member's machine a  *)
(* host (apps/janjanode/src/server.service.ts), the sealed enrollment it   *)
(* installs, and the loop that copies the primary's database until the     *)
(* primary is gone or denies the grant (apps/janjanode/src/main.ts).       *)
(*                                                                         *)
(* A database is a value: a snapshot carries all of it, and what a replica *)
(* keeps of its own is written over the copy.  Promotion is one step here, *)
(* taken while the primary is down; HostFailover has its rounds and votes. *)
(* Every replica is one of the first primary, and epochs end at 1: no      *)
(* bridge elects a successor of a host the replica was not enrolled under. *)
(***************************************************************************)
EXTENDS Naturals, FiniteSetsExt, SequencesExt

CONSTANTS
    Replicas,      \* members with a machine that may become a host
    Primary,       \* the host that created the community
    None,
    MaxGrants,     \* bound: grants
    MaxLog,        \* bound: entries of an op_log, but for the promotion
    MaxChain,      \* bound: records a replica registers
    MaxFaults      \* bound: crashes, lost results, lost quorums

ASSUME ReplicaAssumption ==
    /\ Primary \notin Replicas /\ None \notin Replicas
    /\ {MaxGrants, MaxLog, MaxChain, MaxFaults} \subseteq Nat

Hosts == Replicas \cup {Primary}

VARIABLES
    db,           \* [Hosts -> database or None]
    mode,         \* [Hosts -> what the process is]
    candidates,   \* hosts whose key the member has proved to possess
    accepting,    \* [Replicas -> grant the desktop has accepted and not enrolled, or 0]
    file,         \* [Replicas -> sealed enrollment on disk, or None]
    reply,        \* [Replicas -> what the process has in hand: the enrollment it installs, or
                  \*   how far the request of its loop has come]
    elected,      \* the replica that was promoted, or None
    denylist,     \* grants that the bridges know to be revoked
    cut,          \* [Grants -> length of op_log when the grant was no longer active, or None]
    faults

vars == <<db, mode, candidates, accepting, file, reply, elected, denylist, cut, faults>>

Fault == faults < MaxFaults /\ faults' = faults + 1

Reply(what) == [is |-> what, of |-> None]
NoReply     == Reply("none")

(***************************************************************************)
(* The database.                                                           *)
(***************************************************************************)
Database ==
    [epoch: {0, 1},
     log: Seq(Hosts),                  \* op_log: who wrote each entry
     grants: Seq([host: Replicas, generation: Nat, accepted: BOOLEAN, revoked: BOOLEAN,
                  revokedAt: Nat, enrolled: BOOLEAN]),
     members: SUBSET Replicas,
     writerState: [Hosts -> {"none", "writer", "fenced"}],
     enrollment: 0..MaxGrants,         \* replica_enrollment_id
     chain: 0..MaxChain]               \* host_record_chains of the host itself

Grants == 1..MaxGrants

ASSUME NoneAssumption == None \notin Database

GrantsOf(d, h) == {g \in DOMAIN d.grants : d.grants[g].host = h}

\* currentHostGeneration: of the grants of a host and of their revocations.
Generation(d, h) ==
    Max({0} \cup {d.grants[g].generation : g \in GrantsOf(d, h)}
            \cup {d.grants[g].revokedAt : g \in GrantsOf(d, h)})

\* activeHostGrant: whoever asks, at the primary or of its own copy.
Active(d, g) ==
    /\ g \in DOMAIN d.grants
    /\ d.grants[g].accepted /\ ~d.grants[g].revoked
    /\ d.grants[g].host \in d.members
    /\ d.grants[g].generation = Generation(d, d.grants[g].host)

\* writerStateKey: the state a host finds in a database, its own or copied.
WriterStateOf(d, h) == d.writerState[h]

\* currentHostGrant of a replica, which cannot sign one for itself.
OwnGrant(d, h) == \E g \in GrantsOf(d, h) : d.grants[g].accepted /\ ~d.grants[g].revoked

Logged(d, h) == [d EXCEPT !.log = Append(@, h)]

(***************************************************************************)
(* Operations on the primary.                                              *)
(***************************************************************************)
\* canAcceptCommand, of commands that write.
PrimaryWrites(d) ==
    /\ mode[Primary] = "writer" /\ Len(db[Primary].log) < MaxLog
    /\ db' = [db EXCEPT ![Primary] = Logged(d, Primary)]
    /\ cut' = [g \in Grants |-> IF Active(db[Primary], g) /\ ~Active(d, g)
                               THEN Len(db[Primary].log) ELSE cut[g]]

\* hostCandidateRegister.
RegisterCandidate(h) ==
    /\ h \in db[Primary].members \ candidates
    /\ PrimaryWrites(db[Primary])
    /\ candidates' = candidates \cup {h}
    /\ UNCHANGED <<mode, accepting, file, reply, elected, denylist, faults>>

\* hostGrantCreate.
CreateGrant(h) ==
    /\ h \in candidates \cap db[Primary].members
    /\ Len(db[Primary].grants) < MaxGrants
    /\ PrimaryWrites([db[Primary] EXCEPT !.grants = Append(@,
           [host |-> h, generation |-> Generation(db[Primary], h) + 1, accepted |-> FALSE,
            revoked |-> FALSE, revokedAt |-> 0, enrolled |-> FALSE])])
    /\ UNCHANGED <<mode, candidates, accepting, file, reply, elected, denylist, faults>>

\* hostGrantAccept: a newer grant of the host does not keep an older one from being accepted.
Accepted(g) ==
    /\ g \in DOMAIN db[Primary].grants
    /\ LET row == db[Primary].grants[g]
       IN  row.host \in db[Primary].members /\ ~row.revoked /\ ~row.accepted
    /\ PrimaryWrites([db[Primary] EXCEPT !.grants[g].accepted = TRUE])

\* hosting.grant.accept of the desktop.  When the result is lost it gives up, and no attempt
\* after it gets past this step.
AcceptGrant(g) ==
    /\ Accepted(g)
    /\ \/ accepting' = [accepting EXCEPT ![db[Primary].grants[g].host] = g] /\ UNCHANGED faults
       \/ Fault /\ UNCHANGED accepting
    /\ UNCHANGED <<mode, candidates, file, reply, elected, denylist>>

\* enrollReplica, once for each generation of a grant, and the desktop that saves the sealed
\* answer; of a lost one there is no other.
Enroll(h) ==
    /\ accepting[h] # 0
    /\ accepting' = [accepting EXCEPT ![h] = 0]
    /\ IF mode[Primary] = "writer" /\ Active(db[Primary], accepting[h])
            /\ ~db[Primary].grants[accepting[h]].enrolled
       THEN /\ db' = [db EXCEPT ![Primary].grants[accepting[h]].enrolled = TRUE]
            /\ \/ /\ file' = [file EXCEPT ![h] = [grant |-> accepting[h], snapshot |-> db[Primary]]]
                  /\ UNCHANGED faults
               \/ Fault /\ UNCHANGED file
       ELSE UNCHANGED <<db, file, faults>>
    /\ UNCHANGED <<mode, candidates, reply, elected, denylist, cut>>

\* hostGrantRevoke, pushed to the bridges at once.
RevokeGrant(g) ==
    /\ g \in DOMAIN db[Primary].grants /\ ~db[Primary].grants[g].revoked
    /\ LET h == db[Primary].grants[g].host
       IN  /\ PrimaryWrites([db[Primary] EXCEPT !.grants[g].revoked = TRUE,
                                 !.grants[g].revokedAt = Generation(db[Primary], h) + 1])
    /\ denylist' = denylist \cup {g}
    /\ UNCHANGED <<mode, candidates, accepting, file, reply, elected, faults>>

\* kick, ban and leave do not revoke the grants of the member.  Its device cannot join again.
RemoveMember(h) ==
    /\ h \in db[Primary].members
    /\ PrimaryWrites([db[Primary] EXCEPT !.members = @ \ {h}])
    /\ UNCHANGED <<mode, candidates, accepting, file, reply, elected, denylist, faults>>

(***************************************************************************)
(* Write authority, as far as it meets the copies.                         *)
(***************************************************************************)
\* Any other command of a member.
Write(h) ==
    /\ mode[h] = "writer" /\ Len(db[h].log) < MaxLog
    /\ db' = [db EXCEPT ![h] = Logged(@, h)]
    /\ UNCHANGED <<mode, candidates, accepting, file, reply, elected, denylist, cut, faults>>

\* fencePrimaryWriter.  The replica loop of the process that was promoted has ended; the one
\* of a process that was not has not.
LosesQuorum(h) ==
    /\ mode[h] \in {"writer", "resuming"} /\ Fault
    /\ db' = [db EXCEPT ![h].writerState[h] = "fenced"]
    /\ mode' = [mode EXCEPT ![h] = IF h = Primary \/ @ = "writer" THEN "halted" ELSE "replica"]
    /\ UNCHANGED <<candidates, accepting, file, reply, elected, denylist, cut>>

\* resumeWriterAfterRegistrationQuorum: not of a primary that has a successor.
Resume(h) ==
    /\ mode[h] = "resuming" /\ elected \in {None, h}
    /\ mode' = [mode EXCEPT ![h] = "writer"]
    /\ UNCHANGED <<db, candidates, accepting, file, reply, elected, denylist, cut, faults>>

\* observeHigherEpoch.
ObserveHigherEpoch ==
    /\ mode[Primary] # "off" /\ elected # None /\ db[Primary].epoch = 0
    /\ OwnGrant(db[Primary], elected)
    /\ db' = [db EXCEPT ![Primary].epoch = 1, ![Primary].writerState[Primary] = "fenced"]
    /\ mode' = [mode EXCEPT ![Primary] = "halted"]
    /\ UNCHANGED <<candidates, accepting, file, reply, elected, denylist, cut, faults>>

Crash(h) ==
    /\ mode[h] # "off" /\ Fault
    /\ mode' = [mode EXCEPT ![h] = "off"]
    /\ IF h = Primary THEN UNCHANGED reply ELSE reply' = [reply EXCEPT ![h] = NoReply]
    /\ UNCHANGED <<db, candidates, accepting, file, elected, denylist, cut>>

\* restoreWriterState.
Boots(d, h) == IF WriterStateOf(d, h) = "writer" THEN "resuming"
               ELSE IF h = Primary THEN "halted" ELSE "replica"

PrimaryBoot ==
    /\ mode[Primary] = "off"
    /\ mode' = [mode EXCEPT ![Primary] = Boots(db[Primary], Primary)]
    /\ UNCHANGED <<db, candidates, accepting, file, reply, elected, denylist, cut, faults>>

(***************************************************************************)
(* The process of a replica.                                               *)
(***************************************************************************)
\* spawnReplicaHost: the desktop forks it with the enrollment it has on disk.
Forked(h) == mode[h] = "off" /\ file[h] # None

\* prepareReplicaEnrollment installs the snapshot, and names the enrollment in it after.
Install(h) ==
    /\ Forked(h) /\ db[h] = None
    /\ db' = [db EXCEPT ![h] = file[h].snapshot]
    /\ mode' = [mode EXCEPT ![h] = "installing"]
    /\ reply' = [reply EXCEPT ![h] = [is |-> "enrollment", of |-> file[h].grant]]
    /\ UNCHANGED <<candidates, accepting, file, elected, denylist, cut, faults>>

Stamp(h) ==
    /\ mode[h] = "installing"
    /\ db' = [db EXCEPT ![h].enrollment = reply[h].of]
    /\ mode' = [mode EXCEPT ![h] = Boots(db[h], h)]
    /\ reply' = [reply EXCEPT ![h] = NoReply]
    /\ UNCHANGED <<candidates, accepting, file, elected, denylist, cut, faults>>

\* ... of a database that is there it checks the enrollment.  One that was not named before a
\* crash is refused for ever: opening the store rewrites it, and its hash is no longer the
\* snapshot's.  So is one of an older grant.
Boot(h) ==
    /\ Forked(h) /\ db[h] # None
    /\ db[h].enrollment = file[h].grant
    /\ db[h].epoch >= file[h].snapshot.epoch /\ Len(db[h].log) >= Len(file[h].snapshot.log)
    /\ mode' = [mode EXCEPT ![h] = Boots(db[h], h)]
    /\ UNCHANGED <<db, candidates, accepting, file, reply, elected, denylist, cut, faults>>

\* commitPrimaryRegistration, of the replica's own record.
CommitRecord(h) ==
    /\ mode[h] \in {"replica", "resuming", "writer", "halted"}
    /\ OwnGrant(db[h], h) /\ db[h].chain < MaxChain
    /\ db' = [db EXCEPT ![h].chain = @ + 1]
    /\ UNCHANGED <<mode, candidates, accepting, file, reply, elected, denylist, cut, faults>>

(***************************************************************************)
(* The replica loop, with one request under way at a time.                 *)
(***************************************************************************)
Answered(h, r) ==
    /\ reply' = [reply EXCEPT ![h] = r]
    /\ UNCHANGED <<db, mode, candidates, accepting, file, elected, denylist, cut>>

\* replica.ping, which a host answers in any mode.  A member who was removed has no session,
\* unless it was opened before: its loop takes a primary that refuses it for one that is away.
PingServed(h) ==
    /\ mode[h] = "replica" /\ reply[h].is = "none" /\ mode[Primary] # "off"
    /\ Answered(h, Reply(IF Active(db[Primary], db[h].enrollment) THEN "pong" ELSE "denied"))
    /\ UNCHANGED faults

\* consistentSnapshot: the encrypted file as it is between two transactions.
Snapshot(d) == [is |-> "copy", of |-> d]

\* deviation: whoever has a session is served the snapshot
SnapshotUnchecked(h) ==
    /\ reply[h].is = "pong" /\ mode[Primary] = "writer"
    /\ Answered(h, Snapshot(db[Primary]))
    /\ UNCHANGED faults

\* A pong of either epoch is followed by replica.snapshot.  A host that does not write
\* refuses it, and that is not a denial.
SnapshotServed(h) ==
    /\ reply[h].is = "pong" /\ mode[Primary] # "off"
    /\ Answered(h, IF mode[Primary] # "writer" THEN NoReply
                   ELSE IF Active(db[Primary], db[h].enrollment)
                   THEN Snapshot(db[Primary]) ELSE Reply("denied"))
    /\ UNCHANGED faults

SnapshotFails(h) ==
    /\ mode[h] = "replica" /\ reply[h].is # "none"
    /\ IF mode[Primary] = "off" THEN UNCHANGED faults ELSE Fault
    /\ Answered(h, NoReply)

\* deviation: the copy replaces what the replica has of its own
CopyAll(d, own) == [d EXCEPT !.enrollment = own.enrollment]

\* stageAndValidate writes over the copy what the replica keeps of its own.
Copy(d, own) == [d EXCEPT !.enrollment = own.enrollment, !.chain = own.chain]

\* deviation: a snapshot has to be of a newer epoch
ReplacesOlder(d, own) == d.epoch > own.epoch /\ Len(d.log) >= Len(own.log)

\* validateMetadata.
Replaces(d, own) == d.epoch >= own.epoch /\ Len(d.log) >= Len(own.log)

\* replaceEncryptedSnapshot: the copy is renamed over the database, or the one there is stays.
Replaced(d, own) == IF Replaces(d, own) THEN Copy(d, own) ELSE own

\* applyReplicaSnapshot, one step of the process.
ApplySnapshot(h) ==
    /\ reply[h].is = "copy"
    /\ reply' = [reply EXCEPT ![h] = NoReply]
    /\ db' = [db EXCEPT ![h] = Replaced(reply[h].of, @)]
    /\ UNCHANGED <<mode, candidates, accepting, file, elected, denylist, cut, faults>>

\* deviation: a denied grant is remembered by the process only
DeniedInMemory(h) ==
    /\ reply[h].is = "denied"
    /\ reply' = [reply EXCEPT ![h] = NoReply]
    /\ mode' = [mode EXCEPT ![h] = "halted"]
    /\ UNCHANGED <<db, candidates, accepting, file, elected, denylist, cut, faults>>

\* fenceReplicaGrant.
Denied(h) ==
    /\ reply[h].is = "denied"
    /\ reply' = [reply EXCEPT ![h] = NoReply]
    /\ mode' = [mode EXCEPT ![h] = "halted"]
    /\ db' = [db EXCEPT ![h].grants[db[h].enrollment].revoked = TRUE]
    /\ UNCHANGED <<candidates, accepting, file, elected, denylist, cut, faults>>

\* The ping failed for long enough and a majority of the bridges has given its vote:
\* promoteFromWitness.
Promote(h) ==
    /\ mode[h] = "replica" /\ reply[h].is = "none" /\ mode[Primary] = "off"
    /\ elected = None /\ db[h].enrollment \notin denylist
    /\ db[h].epoch = 0 /\ Active(db[h], db[h].enrollment)
    /\ elected' = h
    /\ db' = [db EXCEPT ![h] = [Logged(@, h) EXCEPT !.epoch = 1, !.writerState[h] = "writer"]]
    /\ mode' = [mode EXCEPT ![h] = "writer"]
    /\ UNCHANGED <<candidates, accepting, file, reply, denylist, cut, faults>>

(***************************************************************************)
(* The specification.                                                      *)
(***************************************************************************)
Init ==
    /\ db = [h \in Hosts |-> IF h # Primary THEN None ELSE
                [epoch |-> 0, log |-> <<>>, grants |-> <<>>, members |-> Replicas,
                 writerState |-> [x \in Hosts |-> IF x = Primary THEN "writer" ELSE "none"],
                 enrollment |-> 0, chain |-> 0]]
    /\ mode = [h \in Hosts |-> IF h = Primary THEN "writer" ELSE "off"]
    /\ candidates = {} /\ accepting = [h \in Replicas |-> 0]
    /\ file = [h \in Replicas |-> None] /\ reply = [h \in Replicas |-> NoReply]
    /\ elected = None /\ denylist = {} /\ cut = [g \in Grants |-> None] /\ faults = 0

LoopNext(h) ==
    PingServed(h) \/ SnapshotServed(h) \/ ApplySnapshot(h) \/ Denied(h)

Next ==
    \/ \E h \in Replicas :
          \/ RegisterCandidate(h) \/ CreateGrant(h) \/ Enroll(h) \/ RemoveMember(h)
          \/ Install(h) \/ Stamp(h) \/ Boot(h) \/ CommitRecord(h)
          \/ LoopNext(h) \/ SnapshotFails(h) \/ Promote(h)
    \/ \E g \in Grants : AcceptGrant(g) \/ RevokeGrant(g)
    \/ \E h \in Hosts : Write(h) \/ LosesQuorum(h) \/ Resume(h) \/ Crash(h)
    \/ ObserveHigherEpoch \/ PrimaryBoot

\* The loop runs on a timer, and the requests of one that goes on are answered.
Spec == Init /\ [][Next]_vars /\ \A h \in Replicas : WF_vars(LoopNext(h))

(***************************************************************************)
(* Properties.                                                             *)
(***************************************************************************)
\* Rows are what the operations make of them: a host has one active grant at most, and only
\* what was accepted was ever enrolled or is a replica's own.
TypeOK ==
    /\ \A h \in Hosts : db[h] # None =>
          LET d == db[h]
          IN  /\ d \in Database /\ Len(d.log) <= MaxLog + 1
              /\ \A g \in DOMAIN d.grants : d.grants[g].enrolled => d.grants[g].accepted
              /\ \A r \in Replicas : Cardinality({g \in GrantsOf(d, r) : Active(d, g)}) <= 1
              /\ d.enrollment # 0 =>
                    h # Primary /\ d.enrollment \in GrantsOf(d, h) /\ d.grants[d.enrollment].accepted
    /\ \A h \in Replicas : mode[h] \notin {"off", "installing"} => db[h].enrollment # 0

\* No crash, restart, snapshot or change of writer takes an entry out of the op_log of a
\* replica: above all not what it wrote itself after its promotion.
HistoryGrows ==
    [][\A h \in Hosts : db[h] # None => db'[h] # None /\ IsPrefix(db[h].log, db'[h].log)]_vars

\* The records a replica has registered at the bridges stay in its chain, whatever it copies:
\* the bridges accept no other continuation.
ChainSurvives ==
    [][\A h \in Replicas : db[h] # None => db'[h].chain >= db[h].chain]_vars

\* A replica that was told of the denial of its grant never becomes a writer, in that process
\* or after any restart, whatever the bridges know of the grant.
DeniedNeverWrites ==
    \A h \in Replicas : [](mode[h] = "halted" /\ elected # h => [](mode[h] \notin {"writer", "resuming"}))

\* The writer state that a snapshot carries makes nobody but its host a writer.
OnlyElectedWrite ==
    \A h \in Replicas : mode[h] \in {"writer", "resuming"} => elected = h

\* A host learns nothing of what the primary writes once its grant is no longer active: it
\* was revoked, a newer one was signed for the host, or the member is out.
RemovedLearnNothing ==
    \A h \in Replicas : db[h] # None /\ db[h].enrollment # 0 /\ cut[db[h].enrollment] # None =>
        Cardinality({i \in DOMAIN db[h].log : db[h].log[i] = Primary}) <= cut[db[h].enrollment]

\* A replica that runs, with an active grant, under a primary that writes has all it wrote
\* in the end.
CatchesUp ==
    \A h \in Replicas :
        <>[](/\ mode[h] = "replica" /\ mode[Primary] = "writer"
             /\ Active(db[Primary], db[h].enrollment))
            => <>[](db[h] # None /\ db[h].log = db[Primary].log)

\* A revoked or replaced grant, or a removed member, opens nothing more.
GrantsHold == TypeOK /\ RemovedLearnNothing

\* A replica keeps what it wrote and what it registered.
ReplicaIsKept == HistoryGrows /\ ChainSurvives

\* Nobody is a writer by a copy of the primary's database, or after a denial.
WritersAreElected == []OnlyElectedWrite /\ DeniedNeverWrites
=============================================================================
