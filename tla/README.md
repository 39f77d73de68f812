# JanjaCord: a TLA+ model of its hosts, bridges and desktops

JanjaCord is a chat system without a central server. A community lives on a
**host** (JanjaNode, `apps/janjanode`) run by one of its members; **bridges**
(JanjaBridge, `apps/rendezvous`) hold a signed directory through which clients
find the host, relay the signaling of connections, and act as witnesses when a
**replica** of the host has to take over. The **desktop** (`apps/desktop`) is
the client, holds the keys of the end-to-end encrypted group, and can run the
host as a child process.

The modules here model the state machines of these four: who may write, what a
bridge remembers, who is in a community and with which device, which messages
and attachments are stored for whom, how requests reach a host and how hosts are
copied, started and replaced. They are translated from the code; what the models
showed the code to do against its own documentation is under *Disagreements*.

## Inventory

| component | state | operations | properties that make it correct | module |
|---|---|---|---|---|
| bridge: registration, witnesses, votes (`apps/rendezvous/src/main.ts`) | high-water mark per host, vote per epoch (durable); directory, bound sockets, disconnection times (memory) | cursor / begin / challenge / prove, resolve, witness, claim, close, cleanup, restart | one vote per epoch for good; marks only extend; an epoch is never raised without an election | JanjaBridge, HostFailover |
| bridge: state file (same file) | hash-chained lines, host credentials, pairing tokens, grant generations, revocations | append + fsync, compaction, replay | what was answered survives; a revoked grant never returns | BridgeLedger |
| bridge: sessions, TURN | signaling sessions, queue of the TURN issuer | `relaySignal`, unbind, TURN answers | a session has two ends that agreed; credentials are somebody's who asked | IceGateway |
| host: write authority (`server.service.ts`) | epoch, writer state, record chain, certificate (database); writer flag, resume eligibility, pending registration (memory) | restore, resume, promote, fence, observe a higher epoch | one host writes; a restarted writer resumes only with a quorum | JanjaNode, HostFailover |
| host: bridge coordinator (`main.ts`, `registration-quorum.ts`) | round, sockets, pending requests, quorum, lease | publish, ACK, heartbeat, liveness round, fence, reconnect | a writer is fenced before it can be replaced | JanjaNode, WriteLease |
| host: replica loop and election (`main.ts`) | attempt in progress | ping, pull, resolve, witness quorum, claims, promotion | one promotion per epoch; a dead primary is replaced; a denied replica is not elected | HostFailover, Replica |
| host: replica enrolment, snapshots | sealed enrollment, database copy | enrol, pull, apply, stamp | a replica keeps what is its own and catches up | Replica |
| host: grants | grant requests, generations | request, approve, enrol, revoke, fence replica | generations only grow; a revoked host learns nothing more | Replica, BridgeLedger |
| host: members, devices, roles, invites, channels, calls | relational tables, call participants (memory) | join, leave, kick, ban, link, roles, invites, calls | ownership and hierarchy; a device is vouched for; the banned stay out | Permissions, Community |
| host: WebSocket gateway (`gateway.ts`) | sockets, sessions, places per address and ICE session | admit, authenticate, dispatch, close | no place is leaked or given back twice; no command before authentication | Gateway |
| host: spool, attachments | envelopes, recipients, uploads, usage counters, replay guard | send, ack, purge, retention, upload, download, abort, sweep | counters equal usage; quotas hold; a served attachment is whole | Spool |
| host: MLS packages and welcomes | key packages, welcomes | upload, take, push, pending, ack | a welcome is kept until it is taken, and taken once | Delivery |
| host: ICE gateway (`ice-gateway.ts`) | sessions, TURN request in progress and queue, peers | request, authorize, offer, refresh, dispose | sessions are authorized and end; the TURN queue does not stall | IceGateway |
| client networking (`packages/networking`) | requests queued and in flight, attempt, pinned key | connect, request, time out, reconnect, refresh TURN | a request settles once, with its own answer, in order; an attempt ends | Transport, HostClient, IceTransport |
| desktop: host management (`main.mjs`) | host processes, watchdog, calls in progress, trust store on disk, database key | create, activate, join, bridge and provider calls, autostart, restarts, quit | nothing that was started is forgotten; the host runs the stored configuration; the data can be opened | DesktopDisk, DesktopHosting |
| desktop: connectivity providers (`electron/connectivity`) | children, switches, agents | start, stop, fail, exit | a public route is somebody's | TunnelProviders |
| desktop: delivery (`main.mjs`) | MLS store, keys, receipts, rendered messages, recovery chain | reconcile, drain, consume, ack, send with upload | consumed after it is shown; welcomes survive crashes | Delivery |
| schemas, crypto, identity, UI, mobile, push relay, infrastructure | no protocol state of their own | | | |

Interactions. A host opens one WebSocket per bridge; over it run the registration
exchange, liveness pings, pushes of higher epochs and the frames of signaling
sessions. A replica asks bridges over short-lived requests (resolve, witness,
claim) and its primary over the host's own WebSocket. Bridges never talk to each
other. The community's authority (the owner's device) signs grants and revocations,
which reach the bridges through any host. Members talk to the host over a socket or
over a DataChannel that ends at the host's ICE gateway, which opens a loopback
socket for it; and to a bridge only to find the host or to be signaled to it. A
desktop forks the host it runs and speaks to it over the same WebSocket.

What is hard here: three kinds of process that crash and restart independently;
sockets that close at one end first; answers that are lost or late and carry no
identifier; leases and grace periods on different clocks; handlers that write to a
file before they answer; handlers of the desktop that wait for a child between
reading the configuration and writing it; databases that are replaced by a copy of
another host's; replicas that compete under different bridge sets. `PROJECT.json`
lists each hazard at its line with the properties about it, or why there is none.

## Modules

```
EpochElection      what failover promises                  (abstract)
HostFailover       hosts + bridges + sockets + elections   implements EpochElection
  JanjaNode        one host's write authority
    JanjaBridge    the bridges' election ledger
WriteLease         the clocks HostFailover abstracts from
LedgerPromise      what a bridge's state file promises     (abstract)
BridgeLedger       the state file and its handlers         implements LedgerPromise
TransportPromise   what a transport promises               (abstract)
Connect            the client against a host               implements TransportPromise
  HostClient       ... over a WebSocket
    Transport      requests and connections
  IceTransport     ... over a DataChannel
    IceGateway     the bridge's sessions and the host's ICE gateway
      Transport
Gateway            sockets, sessions, and their commands
  Community        members, roles, devices, invites, links, calls
    Permissions    who may do what
Spool              messages, attachments, quotas
Replica            grants, enrolment, snapshots
Delivery           desktops and host: welcomes and messages
DesktopHosting     the desktop as a host: processes and handlers
  DesktopDisk      its trust store, key and autostart artifacts
  TunnelProviders  its public routes
MC*                instances for TLC
HostFailover_proofs, LeaseAndSpool_proofs, BridgeLedger_proofs, Gateway_proofs,
Replica_proofs, Connect_proofs, Delivery_proofs, DesktopHosting_proofs       theorems
```

Indentation is EXTENDS: the inner modules have the state and the operators of one
part, the outer one composes them.

**JanjaBridge** is the part of a bridge an election depends on: `highWaterMarks`,
`promotionVotes` (both rebuilt from the state file after a restart), `presence` and
`listed` (lost by a restart). A signed record is
`[host, id, seq, prev, epoch, role]`, with `id` in place of the record hash.
`ValidateRegistration`, `ValidPromotionCertificate`, `IsKnownPrimary`,
`VoteConflict` are the functions of `main.ts` they are named after.

**JanjaNode** is what `ServerService` keeps about writing, in the database
(`hostEpoch`, `writerState`, `chain`, `certificate`) and in memory (`writer`,
`resumeEligible`, `pending`), with the round of the coordinator (`round`, `acked`).
Each operator is one transition: `FencePrimaryWriter`, `PromoteFromWitness`,
`ObserveHigherEpoch`, `AcknowledgeRound` (commit plus resume), `RotateRound`
(heartbeat), `HostCrash`, `HostBoot`.

**HostFailover** composes them. A socket (`link`) is down, open, bound or half
closed; `acks` are the ACKs on their way. A registration exchange is one step up to
the durable append at the bridge, where the code validates a second time; its ACK
is a step of its own. An election (`election[n]`) is the sequence of requests of
one tick of the replica loop: the checkpoint, the witnesses of all trusted bridges,
the claims in bridge order, the promotion.

**WriteLease** follows one writer and its bridges second by second: the liveness
round, the lease it renews, the fence check, heartbeats and reconnections on the
host; the time since a socket closed on each bridge. It justifies the guard of
`GraceElapses` in HostFailover: a majority never reports a host absent while
that host still writes.

**BridgeLedger** is the state file (`log`), the ledger kept in memory, and the
handlers that append: credentials, pairing tokens, registrations (begin and prove
as two steps, with revocations in between), revocations, votes, compaction. An
append may be cut by a crash before or after its line is in the file, may throw
before or after it, or may write a part of the line and report success.
**LedgerPromise** is the same ledger as four facts that only grow.

**Permissions**, **Community**, **Gateway** are the community as a host keeps it.
Community has one action per operation of `ServerService`, for an identity and a
device, as the gateway passes them on; an operation that is refused changes nothing
and has no action; one that throws (`JoinThrows`, a repeated row of
`member_devices`) has, because nothing between it and the socket catches it, and the
process restarts. Gateway adds the sockets: admission against the places of an
address and of an ICE session, the device challenge, `AuthProve`, the sessions that
must enrol a device before anything else (`pending`), `release` on close, and
restart. A session keeps the identity it was opened for: commands of a member who
has been kicked meanwhile are judged by the tables as they are.

**Spool** has what a host stores for others to fetch. `spool` and `attachments` are
the tables; `globalUsage` and `memberUsage` are the counters that SQL triggers keep
(`Charge` and `Refund` are the triggers, the clamping at zero included), compared with what the tables
hold. Uploads are begun, resumed, aborted and taken over by a second upload of the
same asset id; a message that is sent links its assets; acknowledgements,
retention, expiry and the sweep delete in the order of the code. The mark of an
acknowledgement and the purge that follows it are two transactions with nothing awaited in
between, and the retention loop has one for each message: `AckDies` and `RetentionDies` are the
deaths of the process that leave some of them undone. Membership and the
right to read change underneath, as Community would change them.

**TransportPromise** says of a client's requests that an answer is given to a request
the host has executed, once, and that nothing is executed twice or after it was
settled. **Transport** is what the two transports have in common (queue, requests in
flight, generations); **HostClient** sends one request at a time over a socket that
is replaced after a timeout; **IceTransport** has the attempts of a DataChannel with
their phases; **IceGateway** the bridge that relays its signaling and the ICE gateway
at the other end, with TURN requests in order; a host that registers again over the socket it has
(`HostRegisters`) makes the bridge forget the sessions, which gateway and client keep. **Connect** runs one client of either
kind against one host.

**Replica** follows the database of each host as a value. A grant is created, accepted
and enrolled (`file` is the sealed enrollment); the loop pings, pulls and applies;
`Install` and `Stamp` are the two steps between which a crash leaves a database that
names no enrollment. What a replica writes of its own over a copy (writer state, chain,
enrollment id) is in `ApplySnapshot`. Promotion is one step, taken when the primary is
down; HostFailover has what it takes.

**DesktopDisk** is the store of the connectivity configuration in its three files with
MACs and a counter, the artifacts of autostart, and the migration of the database
key, each as the sequence of the disks a synchronous piece of code leaves behind: a
crash ends with any of them. **TunnelProviders** has the three kinds of provider: a child
of our own, a switch of a system service, a share of an agent. **DesktopHosting** runs the
handlers of the window, from one `await` to the next, the forked hosts with their late
exit events, the watchdog and the launches in the background. The interesting state is in
the record of a call (`calls[c]`): the configuration it read before it waited, and the provider it
is to stop. Any calls overlap, as nothing in the handlers keeps them apart. `alone` is the one
field the code has no counterpart of: it says of a provider's call that no other was in progress
with it, and only the property about routes reads it. `connectivity.provider.stop` reads what it will
write before it waits for a provider to stop, and with none to stop it waits for nothing. Two
operations of one adapter that overlap take effect in the order they end.

**Delivery** composes the desktops of an owner and of members with the host's tables of
envelopes, key packages and welcomes. The recovery chain of a desktop is a list of
requests (`work`); answers can be lost, processes restart. What becomes of a connection depends
on the transport (`OverIce`): an IceHostTransport that lost its channel tries again by timer until it is
closed; a HostClient replaces its socket after a request that timed out, and is closed for good
(`ClosedForGood`) when the socket closes, after which the desktop opens no session of itself.
A run of the recovery chain whose request fails ends there. A group is its creator and epoch,
and who can decrypt what follows from
that. The upload of an attachment, its retry and its abort are the sender's loop.

## Runs

| run | instance | what it shows |
|---|---|---|
| `Failover_restart` | 3 bridges, one replica, one crash of the primary; requests and receipts may be lost | of two hosts at most one writes with a majority of live sockets behind it; every stored receipt has its durable vote; bridges agree on the primary of an epoch; a restarted primary with live ACKs does not resume once it is succeeded |
| `Failover_faults` | 2 bridges, one replica, a bridge restart, a broken socket, records that expire; no host crash | at most one host accepts commands; every step is a step of EpochElection or a stutter |
| `Failover_progress` | 2 replicas trusting {1,2,3} and {2,3}, a crash of the primary, fair replica loops | two replicas are never promoted to one epoch; a primary that dies with the bridges agreeing on its last record is replaced |
| `Failover_two_writers` | as `Failover_restart` | the disagreement below |
| `Lease_clocks` | 3 bridges, 2 broken sockets, lease 2 s, grace 5 s, delay 1 s | a host is fenced before a majority can attest its absence |
| `Ledger_restart` | 2 hosts of 2 communities, 3 generations, 1 pairing token, 2 records, compaction from 4 events; either 2 crashes or 1 append that throws | a replay of the file gives the ledger back; late and out-of-order revocations and the latest grant are accepted; nothing is answered that is not in the file; a revoked grant is neither listed nor bound; the promises hold |
| `Community_sessions` | 2 people, 2 devices, 1 custom role, 1 call channel, 2 invites, 1 device link, 3 logged operations; 2 sockets, 3 connections, direct and 1 ICE origin, 1 turn (a restart, or the writer changing) | the places counted are the sockets there are; there is an owner, and the banned are out; an owner without a session that may command is not deposed; a device comes through a device, and a session opened for enrolling stays bound to that |
| `Spool_attachments` | 2 people, 2 message ids, 1 asset of 2 chunks in 2 versions, spool of 4 and member share of 3, 1 upload pending, 3 sends, 2 turns (restarts, deaths inside an operation, changes of membership or access) | the usage counters are the usage, and within the quotas; an attachment that is linked lives as long as its message, for the same people; whoever is served an attachment is served the bytes announced; a message goes by expiry or with the last acknowledgement, which leaves it there only if the process dies in it |
| `Connect_transports` | 1 client of either kind, 2 requests, 2 host keys, 4 connections, 3 attempts, 1 waiting frame, 2 faults | requests are answered as promised and executed in order; a session is authorized, relayed when a side wants it, and its TURN queue moves; the pinned key does not change; an attempt ends |
| `Replica_snapshots` | 2 members with machines, 2 grants, 6 log entries, 1 record, 2 faults | a host whose grant is gone learns nothing more; what a replica wrote and registered is kept; only the elected write, and never one that was denied; a replica with an active grant catches up |
| `Desktop_hosting` | 1 bridge, a provider of each kind, any 2 calls at a time of 4, 3 host processes, 2 sequences of a remote host, 1 fault; operations of providers that fail as they like | every host that was started is tracked; it runs the stored configuration, but for what a join wrote over it; a public route gets out of hand in no step but that of a provider's call which overlapped another one; the database can be opened or restored; trust marks and bridges are lost to nothing but a handler that had read the store before, and a disabled autostart stays off |
| `Desktop_delivery` | an owner over a socket and a member over ICE, 2 messages of which 1 has an attachment, 1 sent at a time, 2 key packages, 2 tries of an upload, 1 fault | a welcome is kept until its member has the group, and is consumed once; what a member acknowledged it has shown; what it may show is whole; messages it can read are shown, and welcomes it can use are taken, for as long as its transport is not given up |

A property that is a conjunction of named parts (`SessionsHold`, `StoreIsKept`, ...) says so
in its module; the parts have their own comments.

### Bounds, and why they are enough

* **Three bridges** is the code's own maximum (`targets.slice(0, 3)`), two the least
  that allows a promotion.
* **MaxEpoch = 1.** A replica only binds an election to records of the host it
  replicates, the founder's, so one failover is all the code can do without
  a new enrolment. Replica has the same bound for the same reason.
* **MaxRecords**: two records for the primary (one renewal, one fresh record after
  a crash), one for a replica. Further renewals repeat the first.
* **Faults** (`MaxCrashes`, `MaxDrops`, `MaxBridgeRestarts`, `MaxFaults`, `FaultBudgets`)
  are what one scenario needs; each passing run spends them where they matter instead of
  all at once.
* **CONSTRAINT `ReplicasConnectWhenElected`** leaves out states in which a replica
  opens its own publishing sockets before it was promoted. It bounds the runs that
  have it; the theorems do not assume it, and `Failover_progress` does without it (there no
  replica has publishing sockets at all).
* **BridgeLedger**: one host goes through two grants and the revocation between them in any
  order, the other has just come and competes for the pairing token; `CompactAt = 4` makes
  several compactions happen in a behaviour.
* **WriteLease** scales the seconds down and keeps the relation between them,
  `Grace > FenceAfter + MaxDelay + 1` (production: a lease of at most 15 s against
  a grace of at least 20 s). The relation is tight: with one second less grace
  `Lease_clocks` fails.
* **Community**: two people suffice for every pair of actor and target, since an operation
  has no third; with one device each or two for one. The custom role is above the
  built-in moderator and can manage roles, invites and assignments, which the hierarchy
  must stop from rising. `MaxOps` counts the operations that are logged: three of them
  transfer, demote and remove; the second connection of a socket finds what the first
  left behind.
* **Spool**: two people in every audience; quotas just below what two messages and an
  asset need, so that each quota is hit both by sends and by uploads; two versions of an
  asset so that chunks could be mixed.
* **Connect**: a lost connection and a late answer are two faults, and four connections
  leave one after them. A host that unbinds or registers again in a session counts as a fault.
* **Replica**: two grants are two for one host (a replacement) or one for each of two.
* **DesktopHosting**: everything overlaps. Two calls at a time and the watchdog make every pair of
  handlers meet; four calls leave two for what comes before. Three processes are the host before,
  during and after a restart; with a provider of each kind there is one to be switched from. The fault is a
  crash, a wedged host, an exit of a tunnel or a restored file; a start or a stop that fails is none.
* **Delivery**: the second key package is for the member that restarts; the second try
  of an upload for the answer that was lost. The member is over ICE, the
  one transport that comes back of itself; the owner's HostClient closes for good.
* **Symmetry** is used where no liveness is checked and the sets are interchangeable:
  bridges in `Lease_clocks`, sockets in `Community_sessions`, people, messages
  and contents in `Spool_attachments`, calls in `Desktop_hosting`.
* `CHECK_DEADLOCK FALSE` everywhere: the bounds on records, faults, calls and requests let
  a behaviour end, and a WriteLease behaviour ends when the host is fenced.

### Fairness

`FairSpec` (HostFailover) assumes weak fairness of each replica's loop, which a
timer drives and whose requests all have a timeout, and of each bridge's clock and
close handler for the primary's socket, which its event loop and a timestamp
comparison give. It assumes nothing of faults, of restarts, or of the primary. The
run that checks liveness sets `RequestsFail = FALSE`: a request to a live bridge is answered.

`Connect` assumes it of frames that have arrived (`ClientTakes`, `HostTakes`), of the timers
that start the next attempt (`Attempts`), of a bridge's answer about TURN, which is bounded
by a timeout at the host, and of the host's reconnection to its bridge (`HostReturns`, a loop
with back-off). `Replica` assumes it of `LoopNext(h)`: the loop of a replica is a timer, and
its requests time out. `Delivery` assumes it of `Reconnect(m)` for a member over ICE only
(`scheduleReconnect` retries by timer until the transport is closed) and of `Runs(m)` (the promise chain is run by
the event loop). Of a HostClient it assumes no reconnection at all: one whose socket closed is
finished, and one that hangs until a request times out may find its next socket closed too. So
`SessionsCatchUp` promises a member nothing while it has no such session (`NoSession`), nor one that
`community.activate` opened, which asks for nothing of what waits. None assumes
anything of what a user does, of crashes or of restarts; liveness under a bounded number of
faults says that after the last of them the rest gets done.

## Theorems

| theorem | says | module |
|---|---|---|
| `TypeCorrect` | `Spec => []TypeOK` | HostFailover_proofs |
| `CertificatesBacked` | `Spec => []CertificateBacked` | HostFailover_proofs |
| `FailoverElectsOne` | `Spec => []ElectionSafety` | HostFailover_proofs |
| `BridgesAgree` | `Spec => []PrimaryAgreement` | HostFailover_proofs |
| `FailoverImplementsElection` | `Spec => ImplementsElection` | HostFailover_proofs |
| `WritersAreExclusive` | `Spec => []ConfirmedWriterExclusive` | HostFailover_proofs |
| `SucceededDoNotResume` | `Spec => ResumesUnlessSucceeded` | HostFailover_proofs |
| `OneWriter` | `FounderNeverCrashes` implies `Spec => []SingleWriter` | HostFailover_proofs |
| `LeaseTypeCorrect` | `LeaseSpec => []LeaseTypeOK` | LeaseAndSpool_proofs |
| `WriterIsFencedFirst` | `LeaseSpec => []FencedBeforeAbsent` | LeaseAndSpool_proofs |
| `LedgerInvariant` | `NoShortWrites` implies `Spec => []LedgerInv` | BridgeLedger_proofs |
| `FileHoldsTheState` | `NoShortWrites` implies `Spec => []FileIsTheState` | BridgeLedger_proofs |
| `NothingAnsweredUnwritten` | `NoShortWrites` implies `Spec => []WrittenAhead` | BridgeLedger_proofs |
| `RevokedStayOut` | `NoShortWrites` implies `Spec => []RevokedAreOut` | BridgeLedger_proofs |
| `AuthorityStaysAccepted` | `NoShortWrites` implies `Spec => []AuthorityIsAccepted` | BridgeLedger_proofs |
| `PromiseIsKept` | `NoShortWrites` implies `Spec => ImplementsPromise` | BridgeLedger_proofs |
| `CommunityKeepsOwner` | `Spec => []MembershipHolds` | Gateway_proofs |
| `OwnersKeepOffice` | `Spec => OwnersAreNotDeposed` | Gateway_proofs |
| `GatewayCounts` | `Spec => []SessionsCounted` | Gateway_proofs |
| `DevicesStayVouched` | `Spec => DevicesAreVouched` | Gateway_proofs |
| `SpoolAccountsAreExact` | `Spec => []AccountsExact` | LeaseAndSpool_proofs |
| `AttachmentsFollowMessages` | `Spec => []LinkedWithMessage` | LeaseAndSpool_proofs |
| `ServedIsWhole` | `Spec => []ReadableIsWhole` | LeaseAndSpool_proofs |
| `ConsumedAreGone` | `Spec => PurgedWhenConsumed` | LeaseAndSpool_proofs |
| `GrantsStayClosed` | `Spec => []GrantsHold` | Replica_proofs |
| `NothingIsLost` | `Spec => ReplicaIsKept` | Replica_proofs |
| `CopiesGiveNoAuthority` | `Spec => WritersAreElected` | Replica_proofs |
| `RequestsStayInOrder` | `Spec => []RequestsInOrder` | Connect_proofs |
| `TransportsKeepPromise` | `Spec => ImplementsPromise` | Connect_proofs |
| `SessionsAreHeld` | `Spec => SessionsHold` | Connect_proofs |
| `WelcomesStay` | `Spec => []WelcomesAreKept` | Delivery_proofs |
| `MessagesStay` | `Spec => []MessagesAreKept` | Delivery_proofs |
| `WelcomesCountOnce` | `Spec => ConsumedOnce` | Delivery_proofs |
| `HostsAreTracked` | `Spec => [](StartedIsTracked /\ Routes \subseteq held)` | DesktopHosting_proofs |
| `RoutesAreTracked` | `Spec => RoutesStayTracked` | DesktopHosting_proofs |
| `HostsFollowStore` | `Spec => HostRunsCurrentConfig` | DesktopHosting_proofs |
| `DataIsRecoverable` | `Spec => []HostDataRecoverable` | DesktopHosting_proofs |
| `StoreStaysKept` | `Spec => StoreIsKept` | DesktopHosting_proofs |

Those of the failover hold for every set of hosts, every set of up to three bridges,
every assignment of trusted bridge sets of two or more, and every bound on epochs,
records and faults; those of the ledger for any finite sets of hosts and tokens, any division of the
hosts into communities, any size at which a file is compacted and any number of crashes and
failed appends; those of the gateway and of the spool for any members, roles,
invites, sockets, messages, assets, sizes and quotas; those of the replicas for any hosts,
grants, log bounds and numbers of faults; those of the transports for any requests, keys,
connections, attempts, frames and faults; those of the deliveries for any members, any finite
set of messages, any tries and faults; those of the desktop for any bridges, providers,
processes, calls at a time and faults. LeaseAndSpool_proofs holds the theorems of two modules
that share nothing.

*Types.* `TypeInv` adds to `TypeOK` two facts without which it is not inductive:
a listed host has a mark (`ListedHaveMarks`; an election takes its checkpoint from
there) and an attempt in progress has a checkpoint and only trusted bridges
(`ElectionShape`).

*Election safety.* `VoteInv` says that every receipt, in the hands of a candidate
(`ReceiptsBacked`) or in a stored certificate (`CertificatesHold`), is matched by
the durable vote of its bridge for that candidate and checkpoint. A vote is never
changed (`VoteConflict`), so these survive every step, a bridge's restart included.
Two certificates of one epoch come from majorities of two trusted sets; a trusted
set has two members at least and there are three bridges at most, so any two such
majorities share a bridge (`MajoritiesMeet`),
whose one vote names both candidates.

*Refinement.* A replica binds its election to a record of the founder with the primary
role (`TargetsFit`), and the founder has that role in epoch 0 only (`HostsFit`,
`RoundsFit`, `ChainsFit`). So every certificate is for epoch 0 (`CertificatesFit`), and
epoch 1 occurs in a database, a record or a mark (`MarksFit`) only after a replica was
promoted to it, which by `ElectionSafety` is one replica. `EpochInv` is the conjunction.
Two marks of one epoch with the primary role are then of one host, and of the steps of
HostFailover a promotion is an `Elect` of EpochElection, a registration that raises the
highest epoch of a bridge is an `Adopt`, and every other step is a stutter.

*Authority.* `AuthorityInv` is why two hosts never both write with a majority behind each. A
bridge votes for a successor only when it has unbound the founder (`VotedAgainst`), and a
bridge that lists the successor then refuses every record of the founder but one of a later
epoch, so it does not bind the founder again before the founder has fenced itself
(`Superseded`). A bridge that counts for a promoted replica lists its record of
epoch 1 (`AcksMark`). Hence the bridges that confirm one host and those that confirm the other are
disjoint, and two majorities are not. None of this is inductive without the
bookkeeping: a socket the host counts as bound is bound at the bridge (`EndsAgree`), a host that
may write is the one its database says (`MayWrite`), records are numbered by their place in
the chain (`Numbered`), and a fenced successor signs as a replica, after everything it signed as a
primary (`OfficeOrder`). Each is proved from a lemma that says what a step may do to one
piece of the state (`OfficeStep`, `RecordsStep`, `MarkStep`, `SocketStep`, `AcksStep`,
`AttemptStep`). `SucceededDoNotResume` follows from the same invariant.

`OneWriter` is the stronger `SingleWriter`, without the condition of a majority of live sockets,
under the one hypothesis that the founder never crashes (`MaxCrashes[PrimaryHost] = 0`;
bridges restart, sockets break and replicas crash as they like). It is false without the
hypothesis, see *Two writers after a restart*. While the founder writes, no majority of a
replica's trusted bridges can call it absent (`AbsentAreSilent`, and no attempt that has begun its claims
can still win them: `FounderWrites`); when it has stopped, only an office it handed over
can begin.

*Leases.* `LeaseInv` relates the two clocks by bounding a loss with the age of the
lease: some majority of the bridges has been without the host for no longer than
`leaseAge + MaxDelay + 1` (`LeaseBounded`). That is inductive only with what makes a
renewal young: a bridge whose ACK the host has or awaits is one it registered at
over a socket that is bound or half closed (`SocketsAgree`), a pong or an ACK is no
older than the liveness period and the delay of the socket (`AnswersFresh`), and no
second passes over a lease that has run out (`FenceChecked`). Such a majority meets
every majority that would attest absence (`BridgeMajoritiesMeet`). The assumptions
are `GraceAssumption` (above), that timers fire every second (no suspended process),
and that an ACK arrives within `MaxDelay` or not at all.

*The ledger.* `FileInv` says how the file, the chain of events it stands for (`head`) and the memory
relate. The chain rebuilds the memory (`Rebuilds`; expired credentials apart), and the file is in step
with the chain, or one line ahead of it after an fsync that threw, or unreadable after one more
line. A crash leaves a torn line at most, which the replay drops. What a compaction writes rebuilds
the memory too (`CheckpointRebuilds`): the five kinds of events are replayed one after the other, in
any order within a kind but revocations first, and after each line the ledger has just
the part of the memory the lines so far are about. The replay is a recursive function on the lines
of the file, so this and the step from a file to one more line are inductions over positions of
a sequence; they are made by the least position at which the claim would fail, since no induction
theorem with an operator parameter can be used. An event may be replayed where the handler
would accept it, so the proof needs what a handler relies on: all a bridge remembers was signed by the
host's authority (`SignedLedger`), and what it appends follows from what was signed and what it
remembers (`Legit`). Every step changes the memory by one legitimate event at most,
credentials apart (`Moves`), and such an event is a step of LedgerPromise, or a stutter.

The hypothesis `NoShortWrites` (no budget has short writes) is what these theorems need and the
code does not secure: see *A short write*. `LedgerAssumption` has the hosts and tokens finite,
because a checkpoint enumerates them, and `MaxGeneration` positive, because every host starts
with a grant.

*Ownership and bans.* `role-owner` has the level of an owner and keeps it, because a role
is created under an id of its own and never changed (`RolesTyped`); so `canModify` is false
of a target that holds it, whoever asks (`OwnersAreBeyond`). The kick, the ban and the
assignment of roles therefore leave all owners in place, and a transfer makes the new
owner in the step that ends the old one. The rest of `MemberInv` says that every member
and every invite names a role that exists; `FirstInvitesAssumption` says it of the invites
the model starts with.

*Places and devices.* A socket holds a place exactly while it is open and has an origin
(`PlacesKept`); a step takes or gives back the place of one socket in the step that changes
that socket, a close event of a refused socket gives back nothing, and a restart empties both sides.
`GateInv` has the types the sockets, the links and the store need for that. A device comes to a
member by a live capability whose voucher was one of that member's devices when it was issued;
that the voucher still is one when the capability is spent is part of `LinksTyped`, because devices
are only added.

*Replicas.* `IInv` has what the primary's database holds (`PrimaryInv`) and, for each replica,
what its process may be doing with what it has (`ProcessInv`), what its own database holds
(`DatabaseInv`), where its copies come from (`CopiesInv`) and what a denial has stopped
(`DenialInv`). The central relation is `Follows(d, e)`, of a copy `d` and the database `e` the primary
has later: the log of `d` is a prefix of that of `e`, and a grant accepted in `d` is accepted in `e`, and
active there only if it is in `d`. Snapshots satisfy it because they are taken from `e`; the primary's
steps keep it because they append to the log and never make a grant active again. A database therefore has
no entry of the primary from after the moment its grant stopped being active (`By`), wherever it was taken, sealed,
installed or stamped in between.

*Spool.* `RowInv` has the rows (what is complete was compared, and its chunks are written
once: `CompletedIsWhole`), `AccountInv` the counters. A row is charged in the step that
stores it and refunded in the step that deletes it; the clamp of the refund at zero never
bites because the deleted rows are among those counted (`Refunded`), and the recount at
open finds what the triggers had (`RestartSteps`). These are proofs about finite sets and
their cardinalities, with no bound on either.

*Requests.* The proofs of Connect look at the queue, the requests in flight and the frames
of all connections as one value (`Now`), and say of it that it is `Sound`: a request is in one place
(`Single`), what is in flight is what the current connection carries (`Wired`), who waits is
queued or in flight (`Settling`), and what waits was asked for after whatever is ahead of it
(`InTurn`). A step of either transport is one or a few of a handful of moves of that value (`Make`,
`Send`, `Execute`, ...), each proved once to keep it `Sound`, for sequences of any length
and by what comes before what in them, without naming a position. On top of it HostClient has
one request in flight and a socket for every fault (`SocketInv`, `TrustInv`), IceHostTransport queues
nothing while it is ready and notifies in turn (`ChannelInv`, `RelayInv`, `NoticeInv`), and the TURN
queue of the ICE gateway has no holes (`GateInv`). `TransportAssumption` has more connections than
faults, so that the model does not run out of generations before the faults are spent.

*Delivery.* There is one welcome at most for a member, made when it became a leaf, wherever
that is: at the host, in the owner's outbox, in hand of a run of the reconciliation, in a request of
the member's recovery chain or among its receipts (`OneWelcome`). So what overlapping runs
push, ask for and handle again is always that one, and losing an answer loses nothing. Every request in a
chain or at work is founded on what is there (`WorkFounded`): a welcome is acknowledged when its
group is saved (`GroupSaved`), a message when it is shown and was for its reader (`ShownFounded`);
and a message is sent with an attachment only when that was completed (`AssetFounded`).

*The desktop.* For the disk, the lemmas say of each synchronous piece of code what every disk it
leaves behind is, for any store it starts from: one that reads as before, reads as what is being
written, or is not trusted (`Wrote`), with a database that a key opens, or its backup (`Rekeyed`).
`StoreInv` follows, and that a step makes one of few changes of the stored configuration (`StoreMove`):
switched on, switched off, or what a call in progress is to store (`Change`). `HostsInv` has
one live process that is tracked and not told to exit, and one that holds the port; `CallsInv` the
shapes of the calls, and `CallsMove` that a step moves one call, or none, or ends them all.
No theorem restricts which calls overlap. For the routes, an adapter never lets go of what is
public without ending it, a failed stop and a forgotten share apart (`TunnelsInv`, whatever the calls do);
that `runningProviderId` names it as well needs to know what a call of a provider believes of the one that
runs (`Owns`), which is right of a call no other has overlapped (`RouteInv`), and so no step of such a
call, nor any other step of the application, loses a route (`Tracks`). For the configuration, a step leaves the
host that runs with what is stored, or changes neither, or is the write of a join that had read an older one
(`ConfigMoves`, `JoinLeaves`): bridge and provider calls may write an old copy too, but they start the
host again with it. `IntentInv` says why autostart stays off: when nobody wants it, either
the newest sealed envelope (the anchor) does not ask for it, whatever file comes back from a backup
(`SealedOff`), or the entry is gone and the store is not trusted; and no call has read anything else.
Assumed are `KindsAssumption`, that a provider is of one kind, and what gives the constants
their types.

**Only model-checked:** liveness, which TLAPS here does not prove: `SettledCrashIsSucceeded`,
`Reconnects`, `CatchesUp` and `SessionsCatchUp` (`WelcomesAreTaken`, `MessagesAreShown`). Every
other property of the runs is a theorem, but for the one that `Failover_two_writers` refutes without
the hypothesis of `OneWriter`.

## Disagreements between the code and what it says of itself

**Two writers after a restart** (`Failover_two_writers`). A bridge that has voted
for a successor still accepts and acknowledges the old primary's record. A primary
that restarts between the votes and the promotion resumes, and both accept
commands until the old one hears of the new epoch. What still holds is
`ConfirmedWriterExclusive`.

The others have no run of their own. Each was met while modelling; the models have the code's
behaviour, and the properties are stated of what is left.

Behaviours of Spool and DesktopHosting that the code's own documents rule out:

* *Consumed and not purged.* The mark of the last acknowledgement is committed by itself
  (`server.service.ts:2390`), and the purge is a transaction of its own (2398-2405). A host that dies between
  them (`AckDies`) keeps the message: nothing at start or in the retention loop looks for messages that
  everyone consumed. `PRODUCT.md:178` and the comment at line 2392 have it purged at once: "Purge: todos
  consumiram → purge imediato". What still holds is `PurgedWhenConsumed`.
* *A join takes the high water back.* A join writes the configuration that it read before it waited for ICE
  (`main.mjs:2368`, `2447`). Of two that overlap (`Join`, `JoinResolved` of the first record; `Join`, `JoinResolved` of
  the second; `JoinConnected` of the second, then of the first) the later write puts an older mark back, in a
  store that is signed and trusted; `connectivity.provider.stop` writes a copy from before its wait in the
  same way (`801-813`). Clients are to keep the marks (`infra/docker/README.md:304-306`: "Clientes devem
  conservar high-water e revogações assinadas pela authority e falhar fechados"). What still
  holds is `MarksOnlyGrow`: a mark goes back to nothing but what a call in progress had read.
* *A share nobody can end.* The catch of the zrok start forgets agent and share, whichever start they are
  of (`providers.mjs:608-609`). When two starts overlap and the second fails, the share of the first stays
  public, and neither `connectivity.provider.stop` nor the end of the application can end it.
  `guia-zrok-connectivity.md:72`: "Ao encerrar a rota (ou fechar o app), o endereço deixa de responder". What
  still holds, of the other kinds, is `RoutesStayTracked`.

Failover and ledger:

* *A successor nobody there voted for.* The certificate is only checked when a record raises
  the bridge's highest epoch; the fenced primary, as a replica of epoch 1, raises it without one.
* *A renewal that reached one bridge.* If the primary dies then, bridges hold different
  checkpoints and no election succeeds. `SettledCrashIsSucceeded` is stated for primaries whose
  last record is everywhere.
* *fsync that throws.* The next append repeats the sequence number of the line already in the
  file, and the bridge refuses its own file. `FileIsTheState` is stated for files that an
  append has not left ahead of the ledger.
* *A short write.* The number of bytes written is ignored; the torn line is dropped at
  restart with the revocation it carried. The instance has no short writes.
* *Reconnections are not acknowledged.* A majority of sockets that break and reconnect at once
  fences a healthy writer.

Grants and replicas (`apps/janjanode`; section 5 of
`host-failure-recovery-and-replication.md` has an unauthorized host rejected by a list of
denied replicas):

* Kick, ban and leave revoke no host grant. The session of a removed member's replica is refused,
  which the replica takes for an unreachable primary and not for a denial.
* A crash between the installation of a snapshot and the stamp of its enrollment leaves a
  database every later start refuses.
* `replica_fenced_grant_id` is written and never read.

Community and spool:

* A member who was kicked or left keeps `member_devices` rows. Joining again with the same device
  throws in the handler, uncaught (`server.service.ts:1383`).
* Removed recipients stay in the audience of a message until its retention, and a sender in
  the audience never acknowledges its own message, so that such messages are not purged on
  consumption. `message-consumption-and-purge.md:25` takes removed members out of the audience:
  "a mensagem não fica esperando ele".

Desktop:

* A join that follows another must find the very next record of a host which renews
  continuously; and the mark is stored although ICE failed, because what waits for the client to open
  returns an object, which is always true (`main.mjs:1743`, `1828`). Clients are told to keep
  the marks and to fail closed (`infra/docker/README.md:304`).
* The stale writes above also lose a bridge that was stored meanwhile and bring back autostart that was
  taken back meanwhile; after that of a join the host runs another configuration than the stored
  one until it is started again. Two calls of a provider at once leave a public route that
  `runningProviderId` does not name.
* A HostClient whose socket closes is closed for good (`packages/networking/src/index.ts:327-341`), and the
  desktop, which calls that "definitivo neste transporte" (`main.mjs:1825`), opens no other: a member who came in
  over a direct route stays without a session until the user opens the community again.
* When the trust store is not to be trusted, taking autostart back throws before the intent is
  written, and only the artifacts are removed.
* `pid` is stripped from what is persisted, and the cleanup of orphans finds none
  (`main.mjs:801`).
* A start of a provider that runs throws, and the catch stops it. A stop that throws is
  forgotten (`left`).
* A migration whose backup was cut short throws at every later start; the data is still there.
* `community.activate` asks for neither pending messages nor welcomes (`main.mjs:2584`),
  although a client that reconnects is to acknowledge again what it has shown
  (`message-consumption-and-purge.md:71`); and the private keys of key packages are only in
  memory: a member that restarts before its welcome can never use it, and is not added again.

## Not modelled, and why

* Signatures, hashes, MLS and the schemas (`packages/schema`, `packages/crypto`) are taken as
  sound; a signed object is a value nobody else can make.
* The time to live of a record when a bridge verifies it (a record that is replayed late no
  longer verifies), resolve tokens, access-credential requests of the host, rate limits and
  entry quotas, and all back-off times.
* In BridgeLedger: an exception inside `maybeCompactState`, grants that expire, and what
  JanjaBridge already has of registrations.
* A suspended process whose timers stop (listed as a hazard).
* The choice among several hosts of one community (`selectHostRegistrations`): DesktopHosting
  has the part of it that one host sees, the continuation of its mark.
* Fragmentation of frames on a DataChannel, byte limits, malformed frames; a refused frame is one
  action (`refused`).
* `callSignal` and the WebRTC negotiation between renderers; `SequenceTracker`, which no program
  uses; commits and removals in an MLS group, which the desktop does not apply.
* User interfaces (desktop renderer, mobile), the push relay, deployment and build scripts: no state
  of a protocol.
* Two parts that are modelled apart and not composed: Replica promotes in one step where
  HostFailover has the election, and Spool changes membership where Community has the rules. The
  product of each pair is out of TLC's reach, and each side takes the other as arbitrary.

## Plan

Done: failover (with the election it implements), lease and ledger; community and gateway,
and spool; the client's transports; grants and replicas; the desktop as host and as client; and
the theorems about all of them. Next, the most important first:

1. **RecordChain**: publication of the committed chain to one bridge: cursor, record
   age, lost ACKs, a host crash between signature and commit, ACKs of an abandoned round.
   Abstractly: the bridge's log is a prefix of the host's.
2. **HostSelection**: the choice of a host among those of several bridges with their marks, forks
   and replays.
3. **Negotiation**: the WebRTC negotiation of the renderer with its glare handling, over
   `callSignal`.
4. **Proofs** of progress, when the prover has liveness: that a settled crash is succeeded, and that a
   transport reconnects.
