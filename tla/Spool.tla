-------------------------------- MODULE Spool --------------------------------
(***************************************************************************)
(* The message spool and the attachments of a JanjaNode                    *)
(* (apps/janjanode/src/server.service.ts), with the usage accounting its   *)
(* database does in triggers (store.ts) and the replay guard and sequence  *)
(* numbers it keeps in memory (packages/protocol/src/index.ts).            *)
(*                                                                         *)
(* One text channel.  Who is a member, and whether a member's role may see *)
(* the channel, is Community's business: here it just changes.  An         *)
(* envelope is one byte long, what it carries is a message id.             *)
(***************************************************************************)
EXTENDS Naturals, FiniteSets

CONSTANTS
    Identities,
    MessageIds, AssetIds,
    Contents,            \* ciphertexts an asset can have
    TotalChunks,
    AssetBytes,
    SpoolQuota,          \* config.maxSpoolBytes
    MemberQuota,         \* memberSpoolQuota()
    MaxPendingPerMember, MaxPendingGlobal,
    MaxSends,            \* bound: envelopes accepted, and uploads begun
    MaxTurns,            \* bound: changes of membership, of channel access, restarts
    None

ASSUME SpoolAssumption ==
    /\ IsFiniteSet(Identities) /\ IsFiniteSet(MessageIds) /\ IsFiniteSet(AssetIds)
    /\ {TotalChunks, AssetBytes, SpoolQuota, MemberQuota} \subseteq Nat \ {0}
    /\ {MaxPendingPerMember, MaxPendingGlobal, MaxSends, MaxTurns} \subseteq Nat

Chunks == 0..(TotalChunks - 1)

VARIABLES
    members, viewers,    \* SUBSET Identities: members; those whose role has view_channel
                         \* and send_files in the channel
    spool,               \* [MessageIds -> row or None]
    attachments,         \* [AssetIds -> row or None], with its attachment_chunks
    globalUsage,         \* spool_usage, scope 'global'
    memberUsage,         \* spool_usage, scope 'member:<id>'
    seen,                \* ReplayGuard.seen, in memory
    sequences,           \* SequenceTracker, in memory: [Identities -> Nat]
    up,
    sends, turns         \* the bounds

communityVars  == <<members, viewers>>
attachmentVars == <<attachments, globalUsage, memberUsage>>
spoolVars      == <<spool, seen, sequences>>
vars == <<communityVars, attachmentVars, spoolVars, up, sends, turns>>

Message == [sender: Identities, recipients: SUBSET Identities, consumed: SUBSET Identities,
            seq: Nat, assets: SUBSET AssetIds, expired: BOOLEAN]

Attachment == [owner: Identities, audience: SUBSET Identities, hash: Contents,
               chunks: [Chunks -> Contents \cup {None}], completed: BOOLEAN,
               linked: MessageIds \cup {None}, expired: BOOLEAN]

ASSUME NoneAssumption == None \notin Message \cup Attachment \cup Contents \cup MessageIds

Spooled == {m \in MessageIds : spool[m] # None}
Stored  == {a \in AssetIds : attachments[a] # None}

Init ==
    /\ members = Identities /\ viewers = Identities
    /\ spool = [m \in MessageIds |-> None]
    /\ attachments = [a \in AssetIds |-> None]
    /\ globalUsage = 0
    /\ memberUsage = [i \in Identities |-> 0]
    /\ seen = {}
    /\ sequences = [i \in Identities |-> 0]
    /\ up = TRUE
    /\ sends = 0 /\ turns = 0

\* What Community allows a member in the channel.
HasAccess(i)  == i \in members \cap viewers
\* authorizedAudience: no audience is empty, and everyone in it has access.
Audiences     == {A \in SUBSET Identities : A # {} /\ \A i \in A : HasAccess(i)}

(***************************************************************************)
(* spool_usage.  The deletes are clamped at zero, as MAX(0, ...) does.     *)
(***************************************************************************)
Less(n, k) == IF n > k THEN n - k ELSE 0

\* Rows of the tables as bags of <<owner, size>>; the sums of the recount at open.
OwnedBytes(messages, assets, i) ==
    Cardinality({m \in MessageIds : messages[m] # None /\ messages[m].sender = i})
    + AssetBytes * Cardinality({a \in AssetIds : assets[a] # None /\ assets[a].owner = i})

AllBytes(messages, assets) ==
    Cardinality({m \in MessageIds : messages[m] # None})
    + AssetBytes * Cardinality({a \in AssetIds : assets[a] # None})

\* The insert triggers of attachments and spool.
Charge(i, bytes) ==
    /\ globalUsage' = globalUsage + bytes
    /\ memberUsage' = [memberUsage EXCEPT ![i] = @ + bytes]

\* deviation: the delete triggers give the bytes back to the total only
RefundTotal(messages, assets) ==
    /\ globalUsage' = Less(globalUsage, Cardinality(messages) + AssetBytes * Cardinality(assets))
    /\ UNCHANGED memberUsage

\* The delete triggers, for the rows one statement or transaction deletes.
Refund(messages, assets) ==
    /\ globalUsage' = Less(globalUsage, Cardinality(messages) + AssetBytes * Cardinality(assets))
    /\ memberUsage' = [i \in Identities |->
           Less(memberUsage[i],
                Cardinality({m \in messages : spool[m].sender = i})
                + AssetBytes * Cardinality({a \in assets : attachments[a].owner = i}))]

WithinQuota(i, bytes) ==
    /\ globalUsage + bytes <= SpoolQuota
    /\ memberUsage[i] + bytes <= MemberQuota

(***************************************************************************)
(* Messages.                                                               *)
(***************************************************************************)
\* A transfer of the sender, whole, unlinked, in time, and for the same audience.
Bindable(a, i, audience) ==
    /\ a \in Stored
    /\ attachments[a].owner = i
    /\ attachments[a].linked = None /\ attachments[a].completed
    /\ ~attachments[a].expired
    /\ attachments[a].audience = audience

\* sendEnvelope.  The sequence number is taken before the quotas and the
\* transaction, and the replay guard remembers the id inside it: neither is given
\* back when what follows fails.
SendEnvelope(i, m, audience, assets) ==
    /\ up /\ sends < MaxSends
    /\ HasAccess(i) /\ i \in audience /\ audience \in Audiences
    /\ sequences' = [sequences EXCEPT ![i] = @ + 1]
    /\ sends' = sends + 1
    /\ LET bound    == WithinQuota(i, 1) /\ \A a \in assets : Bindable(a, i, audience)
           accepted == bound /\ m \notin seen /\ m \notin Spooled
       IN  /\ seen' = IF bound THEN seen \cup {m} ELSE seen
           /\ IF accepted
              THEN /\ spool' = [spool EXCEPT ![m] =
                          [sender |-> i, recipients |-> audience, consumed |-> {},
                           seq |-> sequences'[i], assets |-> assets, expired |-> FALSE]]
                   /\ attachments' = [a \in AssetIds |->
                          IF a \in assets THEN [attachments[a] EXCEPT !.linked = m]
                          ELSE attachments[a]]
                   /\ Charge(i, 1)
              ELSE UNCHANGED <<spool, attachmentVars>>
    /\ UNCHANGED <<communityVars, up, turns>>

\* deviation: the message goes and its attachments stay
PurgeMessages(messages) ==
    /\ spool' = [m \in MessageIds |-> IF m \in messages THEN None ELSE spool[m]]
    /\ Refund(messages, {})
    /\ UNCHANGED attachments

\* purgeMessage, of each of `messages`.
Purge(messages) ==
    LET linked == {a \in Stored : attachments[a].linked \in messages}
    IN  /\ spool' = [m \in MessageIds |-> IF m \in messages THEN None ELSE spool[m]]
        /\ attachments' = [a \in AssetIds |-> IF a \in linked THEN None ELSE attachments[a]]
        /\ Refund(messages, linked)

\* The process dies: what is in memory is gone, what was committed stays.
Dies ==
    /\ turns < MaxTurns /\ turns' = turns + 1
    /\ up' = FALSE
    /\ seen' = {} /\ sequences' = [i \in Identities |-> 0]

ConsumedBy(m, who) == spool[m].recipients \subseteq who

\* The UPDATE of the row, which commits on its own.
MarkConsumed(i, m) ==
    /\ spool' = [spool EXCEPT ![m].consumed = @ \cup {i}]
    /\ UNCHANGED attachmentVars

\* deviation: the last consumer's ack marks the row and leaves it to the retention loop
AckConsumedMarks(i, m) ==
    /\ up /\ i \in members
    /\ m \in Spooled /\ i \in spool[m].recipients
    /\ MarkConsumed(i, m)
    /\ UNCHANGED <<communityVars, seen, sequences, up, sends, turns>>

\* ackConsumed: the last recipient's ack purges at once.  Access to the channel is
\* not asked for, membership is.  The mark and the purge are two transactions with
\* nothing but a death of the process between them (AckDies).
AckConsumed(i, m) ==
    /\ up /\ i \in members
    /\ m \in Spooled /\ i \in spool[m].recipients
    /\ IF ConsumedBy(m, spool[m].consumed \cup {i}) THEN Purge({m}) ELSE MarkConsumed(i, m)
    /\ UNCHANGED <<communityVars, seen, sequences, up, sends, turns>>

\* The mark of the last ack is committed and the process dies before the purge is.
AckDies(i, m) ==
    /\ up /\ i \in members
    /\ m \in Spooled /\ i \in spool[m].recipients
    /\ ConsumedBy(m, spool[m].consumed \cup {i})
    /\ MarkConsumed(i, m)
    /\ Dies
    /\ UNCHANGED <<communityVars, sends>>

\* startRetentionLoop: a transaction for each row.
RetentionLoop ==
    LET expired == {m \in Spooled : spool[m].expired}
    IN  /\ up /\ expired # {}
        /\ Purge(expired)
        /\ UNCHANGED <<communityVars, seen, sequences, up, sends, turns>>

\* The process dies when the loop has purged some of them.
RetentionDies(purged) ==
    /\ up /\ purged # {}
    /\ \A m \in purged : m \in Spooled /\ spool[m].expired
    /\ Purge(purged)
    /\ Dies
    /\ UNCHANGED <<communityVars, sends>>

\* The clock passes expires_at; the minimum of the retention and what was asked for.
MessageExpires(m) ==
    /\ m \in Spooled /\ ~spool[m].expired
    /\ spool' = [spool EXCEPT ![m].expired = TRUE]
    /\ UNCHANGED <<communityVars, attachmentVars, seen, sequences, up, sends, turns>>

\* The replay window is an hour, whatever the retention is.
ReplayWindowPasses(m) ==
    /\ m \in seen
    /\ seen' = seen \ {m}
    /\ UNCHANGED <<communityVars, attachmentVars, spool, sequences, up, sends, turns>>

(***************************************************************************)
(* Attachments.                                                            *)
(***************************************************************************)
Unlinked(owners) == {a \in Stored : attachments[a].linked = None /\ attachments[a].owner \in owners}

\* A transfer that is already there is resumed, not begun again.
UploadBegin(i, a, audience, hash) ==
    /\ up /\ sends < MaxSends
    /\ HasAccess(i) /\ i \in audience /\ audience \in Audiences
    /\ a \notin Stored
    /\ Cardinality(Unlinked({i})) < MaxPendingPerMember
    /\ Cardinality(Unlinked(Identities)) < MaxPendingGlobal
    /\ WithinQuota(i, AssetBytes)
    /\ attachments' = [attachments EXCEPT ![a] =
           [owner |-> i, audience |-> audience, hash |-> hash,
            chunks |-> [c \in Chunks |-> None], completed |-> FALSE, linked |-> None,
            expired |-> FALSE]]
    /\ Charge(i, AssetBytes)
    /\ sends' = sends + 1
    /\ UNCHANGED <<communityVars, spoolVars, up, turns>>

Writable(i, a) ==
    /\ a \in Stored /\ ~attachments[a].expired
    /\ attachments[a].owner = i /\ attachments[a].linked = None

\* A chunk that is already there is not written again: the same bytes are
\* acknowledged, others refused.
UploadChunk(i, a, c, content) ==
    /\ up /\ Writable(i, a) /\ HasAccess(i)
    /\ attachments[a].chunks[c] = None
    /\ attachments' = [attachments EXCEPT ![a].chunks[c] = content]
    /\ UNCHANGED <<globalUsage, memberUsage, communityVars, spoolVars, up, sends, turns>>

\* deviation: the count of the chunks is compared, their bytes are not
UploadCompleteCounted(i, a) ==
    /\ up /\ Writable(i, a) /\ ~attachments[a].completed
    /\ \A c \in Chunks : attachments[a].chunks[c] # None
    /\ attachments' = [attachments EXCEPT ![a].completed = TRUE]
    /\ UNCHANGED <<globalUsage, memberUsage, communityVars, spoolVars, up, sends, turns>>

\* Every chunk is there and together they hash to what begin announced.
UploadComplete(i, a) ==
    /\ up /\ Writable(i, a) /\ ~attachments[a].completed
    /\ \A c \in Chunks : attachments[a].chunks[c] = attachments[a].hash
    /\ attachments' = [attachments EXCEPT ![a].completed = TRUE]
    /\ UNCHANGED <<globalUsage, memberUsage, communityVars, spoolVars, up, sends, turns>>

DeleteAttachments(gone) ==
    /\ attachments' = [a \in AssetIds |-> IF a \in gone THEN None ELSE attachments[a]]
    /\ Refund({}, gone)

UploadAbort(i, a) ==
    /\ up
    /\ a \in Stored /\ attachments[a].owner = i /\ attachments[a].linked = None
    /\ DeleteAttachments({a})
    /\ UNCHANGED <<communityVars, spoolVars, up, sends, turns>>

AttachmentExpires(a) ==
    /\ a \in Stored /\ ~attachments[a].expired
    /\ attachments' = [attachments EXCEPT ![a].expired = TRUE]
    /\ UNCHANGED <<globalUsage, memberUsage, communityVars, spoolVars, up, sends, turns>>

\* startAttachmentCleanup: expired, linked or not, or abandoned for an hour.
AttachmentCleanup(abandoned) ==
    LET gone == {a \in Stored : attachments[a].expired} \cup abandoned
    IN  /\ up /\ gone # {}
        /\ abandoned \subseteq Unlinked(Identities)
        /\ DeleteAttachments(gone)
        /\ UNCHANGED <<communityVars, spoolVars, up, sends, turns>>

\* readableAttachment, what attachmentDownload and its chunks are served from.
Readable(i, a) ==
    /\ HasAccess(i)
    /\ a \in Stored /\ ~attachments[a].expired
    /\ attachments[a].completed /\ attachments[a].linked # None
    /\ i \in attachments[a].audience

(***************************************************************************)
(* Around it.                                                              *)
(***************************************************************************)
\* leave, kick, ban; join with a new invite; a role or an override changed.
MembershipChanges(i) ==
    /\ turns < MaxTurns /\ turns' = turns + 1
    /\ members' = IF i \in members THEN members \ {i} ELSE members \cup {i}
    /\ UNCHANGED <<viewers, attachmentVars, spoolVars, up, sends>>

AccessChanges(i) ==
    /\ turns < MaxTurns /\ turns' = turns + 1
    /\ viewers' = IF i \in viewers THEN viewers \ {i} ELSE viewers \cup {i}
    /\ UNCHANGED <<members, attachmentVars, spoolVars, up, sends>>

\* The process stops, or this host stops being the writer.
Stop == up /\ Dies /\ UNCHANGED <<communityVars, attachmentVars, spool, sends>>

\* ensureSpoolAccounting.
Recount ==
    /\ globalUsage' = AllBytes(spool, attachments)
    /\ memberUsage' = [i \in Identities |-> OwnedBytes(spool, attachments, i)]

Restart ==
    /\ ~up
    /\ up' = TRUE
    /\ Recount
    /\ UNCHANGED <<communityVars, attachments, spoolVars, sends, turns>>

Next ==
    \/ \E i \in Identities, m \in MessageIds :
          \/ \E A \in SUBSET Identities, S \in SUBSET AssetIds : SendEnvelope(i, m, A, S)
          \/ AckConsumed(i, m) \/ AckDies(i, m)
    \/ \E m \in MessageIds : MessageExpires(m) \/ ReplayWindowPasses(m)
    \/ \E i \in Identities, a \in AssetIds :
          \/ \E A \in SUBSET Identities, h \in Contents : UploadBegin(i, a, A, h)
          \/ \E c \in Chunks, h \in Contents : UploadChunk(i, a, c, h)
          \/ UploadComplete(i, a) \/ UploadAbort(i, a)
    \/ \E a \in AssetIds : AttachmentExpires(a)
    \/ \E S \in SUBSET AssetIds : AttachmentCleanup(S)
    \/ \E i \in Identities : MembershipChanges(i) \/ AccessChanges(i)
    \/ \E S \in SUBSET MessageIds : RetentionDies(S)
    \/ RetentionLoop \/ Stop \/ Restart

Spec == Init /\ [][Next]_vars

(***************************************************************************)
(* Properties.                                                             *)
(***************************************************************************)
TypeOK ==
    /\ members \subseteq Identities /\ viewers \subseteq Identities
    /\ \A m \in Spooled : spool[m] \in Message /\ spool[m].consumed \subseteq spool[m].recipients
    /\ \A a \in Stored : attachments[a] \in Attachment
    /\ globalUsage \in Nat /\ memberUsage \in [Identities -> Nat]
    /\ seen \subseteq MessageIds
    /\ sequences \in [Identities -> Nat]
    /\ up \in BOOLEAN /\ sends \in 0..MaxSends /\ turns \in 0..MaxTurns

\* Through sends, purges, aborts, cleanups of several rows at once and restarts, the
\* counters the triggers keep are the bytes that are stored: for the total and for
\* each member, none clamped, none lost.
UsageExact ==
    /\ globalUsage = AllBytes(spool, attachments)
    /\ \A i \in Identities : memberUsage[i] = OwnedBytes(spool, attachments, i)

\* Neither the spool nor a member's share of it is ever over its quota, whichever
\* way the bytes came in.
QuotaHolds ==
    /\ AllBytes(spool, attachments) <= SpoolQuota
    /\ \A i \in Identities : OwnedBytes(spool, attachments, i) <= MemberQuota

\* An attachment that was linked to a message does not outlive it, and is for
\* exactly the recipients of it.
LinkedWithMessage ==
    \A a \in Stored : attachments[a].linked # None =>
        /\ attachments[a].linked \in Spooled
        /\ a \in spool[attachments[a].linked].assets
        /\ attachments[a].audience = spool[attachments[a].linked].recipients

\* Whoever is served an attachment is served the bytes its owner announced: all the
\* chunks, none of another upload of the same asset.
ReadableIsWhole ==
    \A a \in AssetIds, i \in Identities : Readable(i, a) =>
        \A c \in Chunks : attachments[a].chunks[c] = attachments[a].hash

\* A message leaves the spool only when it has expired, or when the ack of a member
\* is the last that was missing; and the ack that was missing leaves it there only if
\* the process dies between its mark and the purge.
PurgedWhenConsumed ==
    [][\A m \in Spooled :
          /\ spool'[m] = None =>
                \/ spool[m].expired
                \/ \E i \in members : ConsumedBy(m, spool[m].consumed \cup {i})
          /\ (spool'[m] # None /\ ConsumedBy(m, spool'[m].consumed)) =>
                ConsumedBy(m, spool[m].consumed) \/ ~up']_vars

\* The accounts are exact and within the quotas (store.ts triggers, ensureSpoolQuota).
AccountsExact == TypeOK /\ UsageExact /\ QuotaHolds
=============================================================================
