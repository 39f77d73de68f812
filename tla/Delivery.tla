------------------------------- MODULE Delivery -------------------------------
(***************************************************************************)
(* How messages reach the desktops of a community and how its members get  *)
(* into the MLS group that encrypts them (apps/desktop/electron/main.mjs), *)
(* with what the JanjaNode keeps for them meanwhile                        *)
(* (apps/janjanode/src/server.service.ts).                                 *)
(*                                                                         *)
(* The work of a desktop is a list of requests that are still to be made,  *)
(* on the recovery chain or in server.join.  A request and what follows    *)
(* its answer up to the next one are one step.  mls-rs is external: a      *)
(* group is its creator and its epoch, and a desktop reads what another    *)
(* one encrypted in the same group.  The host applies no commits: whoever  *)
(* is in the group keeps the epoch it came in.  Nobody leaves here, and    *)
(* retention is Spool's.                                                   *)
(***************************************************************************)
EXTENDS Naturals, Sequences, FiniteSets

CONSTANTS
    Owner,          \* the member who may commit to the group
    Members,        \* the others
    OverIce,        \* SUBSET Desktops: whose transport is an IceHostTransport, not a HostClient
    Messages,
    Attached,       \* SUBSET Messages: those that refer to the attachment
    Chunks,         \* of the attachment
    Syncs,          \* bound: runs of syncGroupMembership at one time
    None,
    MaxSent,        \* bound: messages
    MaxKeys,        \* bound: key packages of a member
    MaxAttempts,    \* uploadAttachmentWithResume
    MaxFaults       \* bound: connections that break, desktops that restart

ASSUME DeliveryAssumption ==
    /\ Owner \notin Members /\ None \notin Members \cup {Owner} /\ Attached \subseteq Messages
    /\ OverIce \subseteq Members \cup {Owner} /\ IsFiniteSet(Messages)
    /\ {MaxSent, MaxKeys, MaxAttempts, MaxFaults} \subseteq Nat /\ MaxAttempts > 0

Desktops == Members \cup {Owner}

VARIABLES
    \* the host
    joined,       \* SUBSET Members
    packages,     \* key_packages: [Members -> key or 0]
    welcomes,     \* [Members -> welcome or None]
    spool,        \* [Messages -> row or None]
    asset,        \* the attachment: [chunks, completed, linked] or None
    \* the local databases
    group,        \* mls_groups: [Desktops -> [of, epoch] or None]
    leaves,       \* the members in the owner's group
    outbox,       \* mls_welcome_outbox: [Members -> welcome or None]
    receipts,     \* mls_welcome_receipts: [Members -> set of welcomes]
    \* the processes
    session,      \* [Desktops -> Sessions]
    keys,         \* private parts of key packages: [Members -> set]
    made,         \* key packages made so far
    recent,       \* recentlyDeliveredMessages
    chain,        \* clientRecoveryChain: what is enqueued
    work,         \* [Desktops -> [Slots -> requests to be made]]
    sync,         \* runs of syncGroupMembership
    upload,       \* attachment.send
    rendered,     \* messages that were ever shown: [Desktops -> set]
    faults

hostVars == <<joined, packages, welcomes, spool, asset>>
diskVars == <<group, leaves, outbox, receipts>>
procVars == <<session, keys, made, recent, chain, work, sync, upload, rendered>>
vars == <<hostVars, diskVars, procVars, faults>>

\* How the session was opened last: by server.join, by community.activate or the start of
\* the host, by a reconnection of the transport.  One that is lost the transport replaces; one
\* that is closed stays so, until community.activate makes another.
Open     == {"joined", "activated", "recovered"}
Sessions == Open \cup {"off", "lost", "closed"}
Slots    == {"chain", "join"}

IsOpen(d) == session[d] \in Open

Welcome == [to: Members, key: Nat, epoch: Nat]
Group   == [of: Desktops, epoch: Nat]
Row     == [sender: Desktops, group: Group, to: SUBSET Desktops, consumed: SUBSET Desktops]
Asset   == [chunks: SUBSET Chunks, completed: BOOLEAN, linked: BOOLEAN]

ASSUME NoneAssumption == None \notin Welcome \cup Group \cup Row \cup Asset

Publish       == [do |-> "publish"]
AskPending    == [do |-> "pending"]
Drain         == [do |-> "drain"]
Consume(w)    == [do |-> "consume", of |-> w]
AckWelcome(w) == [do |-> "ackWelcome", of |-> w]
Deliver(t)    == [do |-> "deliver", of |-> t]
Download(t)   == [do |-> "download", of |-> t]
Ack(t)        == [do |-> "ack", of |-> t]

Idle      == [at |-> "idle"]
NoUpload  == [at |-> "idle", attempt |-> 0, left |-> {}]

(***************************************************************************)
(* Connections.                                                            *)
(***************************************************************************)
\* events.emit: an event reaches who has a session.
Pushed(what, whom) ==
    [d \in Desktops |-> IF d \in whom /\ IsOpen(d) THEN Append(chain[d], what) ELSE chain[d]]

\* What was waiting for an answer fails, and with it what was to follow; the messages that a
\* drain has fetched are gone through all the same.
Abandoned(q) ==
    IF q = <<>> \/ Head(q).do = "deliver" THEN q
    ELSE IF Head(q).do \in {"download", "ack"} THEN Tail(q)
    ELSE <<>>

\* Of what waits for an answer, these requests and runs fail.
Fails(d, slots, runs) ==
    /\ work' = [work EXCEPT ![d] = [s \in Slots |-> IF s \in slots THEN Abandoned(@[s]) ELSE @[s]]]
    /\ sync' = IF d = Owner THEN [s \in Syncs |-> IF s \in runs THEN Idle ELSE sync[s]] ELSE sync

\* A request timed out, or a connection over ICE broke: the transport makes another one, on which
\* it sends what is still in its queue.
Replaced(d) ==
    /\ session' = [session EXCEPT ![d] = "lost"]
    /\ \E slots \in SUBSET Slots, runs \in SUBSET Syncs : Fails(d, slots, runs)

\* The socket of a HostClient closed, and the client for good.
ClosedForGood(d) == session' = [session EXCEPT ![d] = "closed"] /\ Fails(d, Slots, Syncs)

Broken(d) ==
    /\ faults < MaxFaults /\ faults' = faults + 1
    /\ Replaced(d) \/ (d \notin OverIce /\ ClosedForGood(d))

\* uploadAttachmentWithResume begins again, and gives up after some attempts.
Retried(u) ==
    IF u.attempt < MaxAttempts THEN [at |-> "begin", attempt |-> u.attempt + 1, left |-> {}]
    ELSE [at |-> "abort", attempt |-> u.attempt, left |-> {}]

Failed(u) ==
    CASE u.at \in {"begin", "chunks", "complete"} -> Retried(u)
      [] u.at = "send"                            -> [u EXCEPT !.at = "abort"]
      [] u.at = "abort"                           -> [u EXCEPT !.at = "unreachable"]
      [] OTHER                                    -> u

\* The upload waits for an answer, too.
UploadFails(d) ==
    IF d # Owner THEN UNCHANGED upload
    ELSE upload' \in {Failed(upload)} \cup (IF session'[d] = "lost" THEN {upload} ELSE {})

Lose(d) ==
    /\ IsOpen(d) /\ Broken(d) /\ UploadFails(d)
    /\ UNCHANGED <<hostVars, diskVars, keys, made, recent, chain, rendered>>

\* The socket that was to replace another one closes as well, or community.activate gives the
\* transport up (closeActiveCommunitySession).
Close(d) ==
    /\ session[d] = "lost" /\ ClosedForGood(d) /\ UploadFails(d)
    /\ UNCHANGED <<hostVars, diskVars, keys, made, recent, chain, rendered, faults>>

\* deviation: recovery asks for messages only
ReconnectDrains(d) ==
    /\ session[d] = "lost"
    /\ session' = [session EXCEPT ![d] = "recovered"]
    /\ chain' = [chain EXCEPT ![d] = Append(@, <<Drain>>)]
    /\ UNCHANGED <<hostVars, diskVars, keys, made, recent, work, sync, upload, rendered, faults>>

\* replaceTimedOutConnection, scheduleReconnect; onAuthenticatedOpen of a transport that was open
\* before: queueAuthenticatedRecovery.
Reconnect(d) ==
    /\ session[d] = "lost"
    /\ session' = [session EXCEPT ![d] = "recovered"]
    /\ chain' = [chain EXCEPT ![d] = Append(@, <<AskPending, Drain>>)]
    /\ UNCHANGED <<hostVars, diskVars, keys, made, recent, work, sync, upload, rendered, faults>>

\* enqueueClientRecoveryWork: what is enqueued runs one after the other, and is dropped when
\* there is no session at its turn.
TakeNext(d) ==
    /\ work[d]["chain"] = <<>> /\ chain[d] # <<>>
    /\ chain' = [chain EXCEPT ![d] = Tail(@)]
    /\ work' = IF IsOpen(d) THEN [work EXCEPT ![d]["chain"] = Head(chain[d])] ELSE work
    /\ UNCHANGED <<hostVars, diskVars, session, keys, made, recent, sync, upload, rendered, faults>>

\* The desktop ends; its keys, and what it was doing, are in memory only.
Restart(d) ==
    /\ session[d] # "off" /\ faults < MaxFaults /\ faults' = faults + 1
    /\ session' = [session EXCEPT ![d] = "off"]
    /\ keys' = IF d = Owner THEN keys ELSE [keys EXCEPT ![d] = {}]
    /\ recent' = [recent EXCEPT ![d] = {}]
    /\ chain' = [chain EXCEPT ![d] = <<>>]
    /\ work' = [work EXCEPT ![d] = [s \in Slots |-> <<>>]]
    /\ sync' = IF d = Owner THEN [s \in Syncs |-> Idle] ELSE sync
    /\ upload' = IF d = Owner /\ upload.at \notin {"idle", "sent", "aborted"}
                 THEN [upload EXCEPT !.at = "unreachable"] ELSE upload
    /\ UNCHANGED <<hostVars, diskVars, made, rendered>>

\* server.join.
Join(m) ==
    /\ session[m] = "off" /\ m \notin joined
    /\ joined' = joined \cup {m}
    /\ session' = [session EXCEPT ![m] = "joined"]
    /\ work' = [work EXCEPT ![m]["join"] = <<Publish, AskPending>>]
    /\ UNCHANGED <<packages, welcomes, spool, asset, diskVars, keys, made, recent, chain, sync,
                   upload, rendered, faults>>

\* community.activate and openPrimaryCommunitySession: a desktop that has no group of the
\* channel makes one (ensureGroup), whoever's the channel is.  Nothing asks for what the host
\* has kept.  Without a connection what was under way has failed at once.
Activate(d) ==
    /\ session[d] \in {"off", "closed"} /\ d \in joined \cup {Owner}
    /\ chain[d] = <<>> /\ \A s \in Slots : work[d][s] = <<>>
    /\ session' = [session EXCEPT ![d] = "activated"]
    /\ group' = IF group[d] = None THEN [group EXCEPT ![d] = [of |-> d, epoch |-> 0]] ELSE group
    /\ work' = IF d = Owner THEN work ELSE [work EXCEPT ![d]["join"] = <<Publish>>]
    /\ UNCHANGED <<hostVars, leaves, outbox, receipts, keys, made, recent, chain, sync, upload,
                   rendered, faults>>

(***************************************************************************)
(* The requests of a desktop.                                              *)
(***************************************************************************)
Doing(d, s, what) ==
    work[d][s] # <<>> /\ Head(work[d][s]).do = what /\ (what = "deliver" \/ IsOpen(d))

Then(d, s, steps) == work' = [work EXCEPT ![d][s] = steps \o Tail(@)]
Stop(d, s)        == work' = [work EXCEPT ![d][s] = <<>>]

\* publishKeyPackage.
PublishKey(d, s) ==
    /\ Doing(d, s, "publish")
    /\ IF made[d] < MaxKeys
       THEN /\ made' = [made EXCEPT ![d] = @ + 1]
            /\ keys' = [keys EXCEPT ![d] = @ \cup {made[d] + 1}]
            /\ packages' = [packages EXCEPT ![d] = made[d] + 1]
       ELSE UNCHANGED <<made, keys, packages>>
    /\ Then(d, s, <<>>)
    /\ UNCHANGED <<joined, welcomes, spool, asset, diskVars, session, recent, chain, sync, upload,
                   rendered, faults>>

\* welcome.pending: without one, server.join is done.
Pending(d, s) ==
    /\ Doing(d, s, "pending")
    /\ LET found == d # Owner /\ welcomes[d] # None
       IN  Then(d, s, IF ~found THEN <<>>
                      ELSE <<Consume(welcomes[d])>> \o (IF s = "join" THEN <<Drain>> ELSE <<>>))
    /\ UNCHANGED <<hostVars, diskVars, session, keys, made, recent, chain, sync, upload, rendered,
                   faults>>

\* A consumption of the same welcome that is under way is awaited (welcomeConsumptionTasks).
Awaited(d, s, w) == \E o \in Slots \ {s} : \E i \in DOMAIN work[d][o] : work[d][o][i] = AckWelcome(w)

\* handleWelcome: the group and the receipt are saved in one transaction.  A welcome for a key
\* that is no longer in memory is of no use.
ConsumeWelcome(d, s) ==
    /\ Doing(d, s, "consume")
    /\ LET w == Head(work[d][s]).of
       IN  /\ ~Awaited(d, s, w)
           /\ IF w \in receipts[d] THEN Then(d, s, <<AckWelcome(w)>>) /\ UNCHANGED <<group, receipts, keys>>
              ELSE IF w.key \in keys[d]
              THEN /\ group' = [group EXCEPT ![d] = [of |-> Owner, epoch |-> w.epoch]]
                   /\ receipts' = [receipts EXCEPT ![d] = @ \cup {w}]
                   /\ keys' = [keys EXCEPT ![d] = @ \ {w.key}]
                   /\ Then(d, s, <<Publish, AckWelcome(w)>>)
              ELSE Stop(d, s) /\ UNCHANGED <<group, receipts, keys>>
    /\ UNCHANGED <<hostVars, leaves, outbox, session, made, recent, chain, sync, upload, rendered,
                   faults>>

\* acknowledgeWelcome and welcomeAckConsumed, which removes the welcome that was named.
AcknowledgeWelcome(d, s) ==
    /\ Doing(d, s, "ackWelcome")
    /\ welcomes' = IF welcomes[d] = Head(work[d][s]).of THEN [welcomes EXCEPT ![d] = None] ELSE welcomes
    /\ Then(d, s, <<>>)
    /\ UNCHANGED <<joined, packages, spool, asset, diskVars, session, keys, made, recent, chain, sync,
                   upload, rendered, faults>>

\* drainPendingMessages and getPending, in any order here.
DrainPending(d, s) ==
    /\ Doing(d, s, "drain")
    /\ \E order \in [1..Cardinality({t \in Messages : spool[t] # None /\ d \in spool[t].to})
                        -> {t \in Messages : spool[t] # None /\ d \in spool[t].to}] :
          /\ \A i, j \in DOMAIN order : i # j => order[i] # order[j]
          /\ Then(d, s, [i \in DOMAIN order |-> Deliver(order[i])])
    /\ UNCHANGED <<hostVars, diskVars, session, keys, made, recent, chain, sync, upload, rendered,
                   faults>>

Readable(d, t) == group[d] # None /\ spool[t].sender # d /\ group[d] = spool[t].group

Needs(d, r) == IF IsOpen(d) THEN <<r>> ELSE <<>>

Shown(d, t) ==
    /\ recent' = [recent EXCEPT ![d] = @ \cup {t}]
    /\ rendered' = [rendered EXCEPT ![d] = @ \cup {t}]

\* handleDelivered: what this process has shown is acknowledged again, what it cannot read is
\* left at the host.
HandleDelivered(d, s) ==
    /\ Doing(d, s, "deliver")
    /\ LET t == Head(work[d][s]).of
       IN  IF t \in recent[d] THEN Then(d, s, Needs(d, Ack(t))) /\ UNCHANGED <<recent, rendered>>
           ELSE IF ~Readable(d, t) THEN Then(d, s, <<>>) /\ UNCHANGED <<recent, rendered>>
           ELSE IF t \in Attached THEN Then(d, s, Needs(d, Download(t))) /\ UNCHANGED <<recent, rendered>>
           ELSE Shown(d, t) /\ Then(d, s, Needs(d, Ack(t)))
    /\ UNCHANGED <<hostVars, diskVars, session, keys, made, chain, sync, upload, faults>>

\* ... the attachment is fetched and verified first.  One that fails leaves the message there.
DownloadAttachment(d, s) ==
    /\ Doing(d, s, "download")
    /\ LET t == Head(work[d][s]).of
       IN  IF asset # None /\ asset.linked /\ asset.completed
           THEN Shown(d, t) /\ Then(d, s, <<Ack(t)>>)
           ELSE Then(d, s, <<>>) /\ UNCHANGED <<recent, rendered>>
    /\ UNCHANGED <<hostVars, diskVars, session, keys, made, chain, sync, upload, faults>>

\* ackConsumed.  The sender is a recipient of its own message and never acknowledges it, so a
\* message is never purged because everybody has consumed it.
AckConsumed(d, s) ==
    /\ Doing(d, s, "ack")
    /\ spool' = [spool EXCEPT ![Head(work[d][s]).of].consumed = @ \cup {d}]
    /\ Then(d, s, <<>>)
    /\ UNCHANGED <<joined, packages, welcomes, asset, diskVars, session, keys, made, recent, chain,
                   sync, upload, rendered, faults>>

(***************************************************************************)
(* The owner and the group: syncGroupMembership.                           *)
(***************************************************************************)
\* A run pushes what is in the outbox, then goes through the members; those whose welcome is
\* still in the outbox are left out.
Onward(r) ==
    IF r.at = "outbox" /\ r.left # {} THEN r
    ELSE IF r.todo \subseteq r.skip THEN Idle ELSE [r EXCEPT !.at = "members"]

\* Any change of the community's state starts a run, also beside one that is under way.
StartSync(s) ==
    /\ IsOpen(Owner) /\ sync[s] = Idle
    /\ sync' = [sync EXCEPT ![s] = Onward(
           [at |-> "outbox", todo |-> joined, skip |-> {m \in Members : outbox[m] # None},
            left |-> {outbox[m] : m \in {n \in Members : outbox[n] # None}}])]
    /\ UNCHANGED <<hostVars, diskVars, session, keys, made, recent, chain, work, upload, rendered, faults>>

\* welcomePush.
PushWelcome(w) ==
    IF welcomes[w.to] = None
    THEN /\ welcomes' = [welcomes EXCEPT ![w.to] = w]
         /\ chain' = Pushed(<<Consume(w), Drain>>, {w.to})
    ELSE UNCHANGED <<welcomes, chain>>

Accepted(w) == welcomes[w.to] \in {None, w}

\* The welcome that the host has taken is no longer the owner's to keep.
ForgetTaken(w) ==
    outbox' = IF Accepted(w) /\ outbox[w.to] = w THEN [outbox EXCEPT ![w.to] = None] ELSE outbox

\* A push whose answer is lost with the connection.
PushUnanswered(s, w) ==
    /\ PushWelcome(w) /\ Broken(Owner) /\ sync'[s] = Idle /\ UploadFails(Owner) /\ UNCHANGED outbox

PushAnswered(s, w, next) ==
    /\ PushWelcome(w) /\ ForgetTaken(w)
    /\ sync' = [sync EXCEPT ![s] = next]
    /\ UNCHANGED <<session, work, upload, faults>>

PushOld(s) ==
    /\ IsOpen(Owner) /\ sync[s].at = "outbox"
    /\ \E w \in sync[s].left :
          \/ PushUnanswered(s, w)
          \/ PushAnswered(s, w, Onward([sync[s] EXCEPT !.left = @ \ {w},
                                           !.skip = IF Accepted(w) THEN @ \ {w.to} ELSE @]))
    /\ UNCHANGED <<joined, packages, spool, asset, group, leaves, receipts, keys, made, recent, rendered>>

\* deviation: the group is saved, the welcome only sent
AddMemberUnsaved(s, m, w) ==
    /\ leaves' = leaves \cup {m}
    /\ group' = [group EXCEPT ![Owner].epoch = w.epoch]
    /\ UNCHANGED outbox
    /\ sync' = [sync EXCEPT ![s] = [at |-> "push", of |-> w, todo |-> @.todo \ {m}, skip |-> @.skip,
                                    left |-> {}]]

\* add_member, and its transaction: the group and the welcome.
AddMember(s, m, w) ==
    /\ leaves' = leaves \cup {m}
    /\ group' = [group EXCEPT ![Owner].epoch = w.epoch]
    /\ outbox' = [outbox EXCEPT ![m] = w]
    /\ sync' = [sync EXCEPT ![s] = [at |-> "push", of |-> w, todo |-> @.todo \ {m}, skip |-> @.skip,
                                    left |-> {}]]

\* deviation: who is in the group is added again
NextMemberAgain(s) ==
    /\ IsOpen(Owner) /\ sync[s].at = "members"
    /\ \E m \in sync[s].todo \ sync[s].skip :
          IF packages[m] = 0
          THEN /\ sync' = [sync EXCEPT ![s] = Onward([sync[s] EXCEPT !.todo = @ \ {m}])]
               /\ UNCHANGED <<group, leaves, outbox>>
          ELSE AddMember(s, m, [to |-> m, key |-> packages[m], epoch |-> group[Owner].epoch + 1])
    /\ UNCHANGED <<hostVars, receipts, session, keys, made, recent, chain, work, upload, rendered, faults>>

\* keypackage.get; a member who is a leaf cannot be added.
NextMember(s) ==
    /\ IsOpen(Owner) /\ sync[s].at = "members"
    /\ \E m \in sync[s].todo \ sync[s].skip :
          IF packages[m] = 0 \/ m \in leaves
          THEN /\ sync' = [sync EXCEPT ![s] = Onward([sync[s] EXCEPT !.todo = @ \ {m}])]
               /\ UNCHANGED <<group, leaves, outbox>>
          ELSE AddMember(s, m, [to |-> m, key |-> packages[m], epoch |-> group[Owner].epoch + 1])
    /\ UNCHANGED <<hostVars, receipts, session, keys, made, recent, chain, work, upload, rendered, faults>>

PushNew(s) ==
    /\ IsOpen(Owner) /\ sync[s].at = "push"
    /\ LET w == sync[s].of
       IN  \/ PushUnanswered(s, w)
           \/ PushAnswered(s, w, Onward([at |-> "members", todo |-> sync[s].todo,
                                         skip |-> sync[s].skip, left |-> {}]))
    /\ UNCHANGED <<joined, packages, spool, asset, group, leaves, receipts, keys, made, recent, rendered>>

(***************************************************************************)
(* Sending.                                                                *)
(***************************************************************************)
Spooled(d, t) ==
    [spool EXCEPT ![t] = [sender |-> d, group |-> group[d], to |-> joined \cup {Owner}, consumed |-> {}]]

Room ==
    Cardinality({t \in Messages : spool[t] # None \/ (t \in Attached /\ upload.at # "idle")}) < MaxSent

\* message.send and sendEnvelope.
Send(d, t) ==
    /\ IsOpen(d) /\ group[d] # None /\ Room /\ t \notin Attached /\ spool[t] = None
    /\ d \in joined \cup {Owner}
    /\ spool' = Spooled(d, t)
    /\ chain' = Pushed(<<Deliver(t)>>, (joined \cup {Owner}) \ {d})
    /\ UNCHANGED <<joined, packages, welcomes, asset, diskVars, session, keys, made, recent, work, sync,
                   upload, rendered, faults>>

UploadUnchanged == UNCHANGED <<joined, packages, welcomes, diskVars, keys, made, recent, rendered>>

\* What the sender learns of a request of the upload: the answer, or that the connection is lost.
Answer(next) ==
    \/ upload' = next /\ UNCHANGED <<session, work, sync, faults>>
    \/ Broken(Owner) /\ upload' = Failed(upload)

StartUpload ==
    /\ IsOpen(Owner) /\ upload.at = "idle" /\ Attached # {} /\ Room
    /\ upload' = [at |-> "begin", attempt |-> 1, left |-> {}]
    /\ UNCHANGED <<hostVars, diskVars, session, keys, made, recent, chain, work, sync, rendered, faults>>

\* The chunks are sent in order, and then the upload is completed.
Sending(u) == [u EXCEPT !.at = IF u.left = {} THEN "complete" ELSE "chunks"]

\* attachmentUploadBegin: what the host has of the same transfer is not sent again.
BeginUpload ==
    /\ upload.at = "begin" /\ IsOpen(Owner)
    /\ asset' = IF asset = None THEN [chunks |-> {}, completed |-> FALSE, linked |-> FALSE] ELSE asset
    /\ Answer(Sending([upload EXCEPT !.left = Chunks \ asset'.chunks]))
    /\ UploadUnchanged /\ UNCHANGED <<spool, chain>>

\* A transport that is not open refuses at once.
RefuseUpload ==
    /\ upload.at \in {"begin", "abort"} /\ ~IsOpen(Owner)
    /\ upload' = Failed(upload)
    /\ UNCHANGED <<hostVars, diskVars, session, keys, made, recent, chain, work, sync, rendered, faults>>

UploadChunk ==
    /\ upload.at = "chunks" /\ IsOpen(Owner)
    /\ \E c \in upload.left :
          /\ \A e \in upload.left : c <= e
          /\ asset' = [asset EXCEPT !.chunks = @ \cup {c}]
          /\ Answer(Sending([upload EXCEPT !.left = @ \ {c}]))
    /\ UploadUnchanged /\ UNCHANGED <<spool, chain>>

CompleteUpload ==
    /\ upload.at = "complete" /\ IsOpen(Owner)
    /\ asset' = IF asset.chunks = Chunks THEN [asset EXCEPT !.completed = TRUE] ELSE asset
    /\ Answer(IF asset.chunks = Chunks THEN [upload EXCEPT !.at = "send"] ELSE [upload EXCEPT !.at = "abort"])
    /\ UploadUnchanged /\ UNCHANGED <<spool, chain>>

SendAttached ==
    /\ upload.at = "send" /\ IsOpen(Owner)
    /\ \E t \in Attached :
          /\ spool[t] = None
          /\ spool' = Spooled(Owner, t)
          /\ chain' = Pushed(<<Deliver(t)>>, joined)
    /\ asset' = [asset EXCEPT !.linked = TRUE]
    /\ Answer([upload EXCEPT !.at = "sent"])
    /\ UploadUnchanged

\* deviation: an attachment that is linked is deleted as well
AbortLinked ==
    /\ upload.at = "abort" /\ IsOpen(Owner)
    /\ asset' = None
    /\ Answer([upload EXCEPT !.at = "aborted"])
    /\ UploadUnchanged /\ UNCHANGED <<spool, chain>>

\* The finally of attachment.send; the host keeps what a message refers to.
AbortUpload ==
    /\ upload.at = "abort" /\ IsOpen(Owner)
    /\ asset' = IF asset = None \/ asset.linked THEN asset ELSE None
    /\ Answer([upload EXCEPT !.at = "aborted"])
    /\ UploadUnchanged /\ UNCHANGED <<spool, chain>>

(***************************************************************************)
(* The specification.                                                      *)
(***************************************************************************)
Init ==
    /\ joined = {} /\ packages = [m \in Members |-> 0] /\ welcomes = [m \in Members |-> None]
    /\ spool = [t \in Messages |-> None] /\ asset = None
    /\ group = [d \in Desktops |-> IF d = Owner THEN [of |-> Owner, epoch |-> 0] ELSE None]
    /\ leaves = {} /\ outbox = [m \in Members |-> None] /\ receipts = [m \in Members |-> {}]
    /\ session = [d \in Desktops |-> IF d = Owner THEN "activated" ELSE "off"]
    /\ keys = [m \in Members |-> {}] /\ made = [m \in Members |-> 0]
    /\ recent = [d \in Desktops |-> {}] /\ chain = [d \in Desktops |-> <<>>]
    /\ work = [d \in Desktops |-> [s \in Slots |-> <<>>]]
    /\ sync = [s \in Syncs |-> Idle] /\ upload = NoUpload
    /\ rendered = [d \in Desktops |-> {}] /\ faults = 0

Request(d, s) ==
    \/ PublishKey(d, s) \/ Pending(d, s) \/ ConsumeWelcome(d, s) \/ AcknowledgeWelcome(d, s)
    \/ DrainPending(d, s) \/ HandleDelivered(d, s) \/ DownloadAttachment(d, s) \/ AckConsumed(d, s)

Runs(d) == TakeNext(d) \/ \E s \in Slots : Request(d, s)

SyncNext(s) == StartSync(s) \/ PushOld(s) \/ NextMember(s) \/ PushNew(s)

UploadNext ==
    \/ StartUpload \/ BeginUpload \/ RefuseUpload \/ UploadChunk \/ CompleteUpload \/ SendAttached
    \/ AbortUpload

Next ==
    \/ \E d \in Desktops : Lose(d) \/ Close(d) \/ Reconnect(d) \/ Restart(d) \/ Activate(d) \/ Runs(d)
    \/ \E m \in Members : Join(m)
    \/ \E d \in Desktops, t \in Messages : Send(d, t)
    \/ \E s \in Syncs : SyncNext(s)
    \/ UploadNext

\* IceHostTransport tries again until it is closed, and what is enqueued is worked off; nothing
\* is assumed of a HostClient's connection, nor of the owner.
Spec ==
    /\ Init /\ [][Next]_vars
    /\ \A m \in Members \cap OverIce : WF_vars(Reconnect(m))
    /\ \A m \in Members : WF_vars(Runs(m))

(***************************************************************************)
(* Properties.                                                             *)
(***************************************************************************)
\* The state is well formed: a key package that the host hands out was made by its member, a
\* welcome is kept for a member that is in the owner's group, only a recipient has consumed a
\* message, and an upload is completed with all of its chunks.
TypeOK ==
    /\ joined \subseteq Members /\ leaves \subseteq joined
    /\ \A m \in Members :
          /\ packages[m] \in 0..made[m] /\ made[m] \in 0..MaxKeys /\ keys[m] \subseteq 1..made[m]
          /\ ({welcomes[m], outbox[m]} \ {None}) \cup receipts[m] \subseteq Welcome
          /\ (welcomes[m] # None \/ outbox[m] # None) => m \in leaves
    /\ \A d \in Desktops :
          /\ session[d] \in Sessions /\ recent[d] \subseteq rendered[d]
          /\ group[d] # None => group[d].of \in {Owner, d}
    /\ \A t \in Messages : spool[t] # None => spool[t].consumed \subseteq spool[t].to \ {spool[t].sender}
    /\ asset # None => (asset.completed => asset.chunks = Chunks)
    /\ upload.attempt \in 0..MaxAttempts /\ faults \in 0..MaxFaults

\* A member that the owner has added to the group has its welcome, or it is kept for it: by
\* the owner until the host has it, by the host until the member has saved the group
\* (syncGroupMembership, welcomePush, consumeWelcome).
WelcomeNotLost ==
    \A m \in leaves : receipts[m] # {} \/ outbox[m] # None \/ welcomes[m] # None

\* A host that may purge a message because a recipient has consumed it does so for a message
\* which that recipient has shown (handleDelivered, ackConsumed).
OnlyRenderedIsConsumed ==
    \A t \in Messages : spool[t] # None => \A d \in spool[t].consumed : t \in rendered[d]

\* What a message refers to is whole at the host, and stays, also when the sender did not
\* learn that the message was taken and aborts the upload (attachment.send).
AttachedIsWhole ==
    \A t \in Attached : spool[t] # None => asset # None /\ asset.linked /\ asset.completed

\* A member comes into the group of the owner once: a welcome that is pushed, asked for or
\* delivered again does not take it back to where it came in (mls_welcome_receipts).
ConsumedOnce ==
    [][\A m \in Members : receipts[m] # {} => group'[m] = group[m] /\ receipts'[m] = receipts[m]]_vars

\* The member has no session of which it is promised anything: it was opened by
\* community.activate, ended, or hangs on a HostClient that has yet to replace its socket.
NoSession(m) == session[m] \in {"off", "activated", "closed"} \/ (m \notin OverIce /\ session[m] = "lost")

\* A welcome that waits for a member which can use it, or has, is taken while the member's
\* session lasts, reconnections of the transport included.
WelcomesAreTaken ==
    \A m \in Members :
        (welcomes[m] # None /\ (welcomes[m].key \in keys[m] \/ welcomes[m] \in receipts[m]))
            ~> (welcomes[m] = None \/ NoSession(m))

\* A message that a member can read is shown to it while its session lasts, reconnections
\* included.
MessagesAreShown ==
    \A m \in Members, t \in Messages :
        (spool[t] # None /\ m \in spool[t].to /\ Readable(m, t)) ~> (t \in rendered[m] \/ NoSession(m))

\* A welcome is kept until its member has it.
WelcomesAreKept == TypeOK /\ WelcomeNotLost

\* What a member consumed it has shown, and what it may still show is whole.
MessagesAreKept == OnlyRenderedIsConsumed /\ AttachedIsWhole

\* What can be taken or shown in a session is, whatever breaks in it (queueAuthenticatedRecovery).
SessionsCatchUp == WelcomesAreTaken /\ MessagesAreShown
=============================================================================
