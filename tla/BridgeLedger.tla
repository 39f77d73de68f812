---------------------------- MODULE BridgeLedger ----------------------------
(***************************************************************************)
(* The durable state of one JanjaBridge (apps/rendezvous/src/main.ts): the *)
(* hash-chained, compacted file of events it is rebuilt from, and the      *)
(* handlers that append to it: host credentials and pairing tokens,        *)
(* registrations under grant generations, grant revocations, votes.        *)
(*                                                                         *)
(* Every handler appends before it applies, so what matters is which       *)
(* prefix of its events a crash, a failed write or a failed fsync leaves.  *)
(* Marks carry the grant side of a registration only: epochs, roles and    *)
(* certificates are JanjaBridge's.  Grant expiry, per-address rate limits  *)
(* and the entry quotas are left out.                                      *)
(***************************************************************************)
EXTENDS Naturals, Sequences, SequencesExt, FiniteSets

CONSTANTS
    Hosts,
    CommunityOf,     \* function on Hosts: the community (scope) of a host
    Tokens,          \* one-time pairing tokens issued by the bridge's operator
    Nobody,
    MaxGeneration,   \* bound: grants and revocations per host
    MaxSigned,       \* function on Hosts: those of the host
    MaxSeq,          \* bound: records per host
    CompactAt,       \* events in the file that trigger a compaction
    FaultBudgets     \* bound: how many crashes, appends that throw and appends that write a
                     \*   part of their line and do not notice may come together

ASSUME LedgerAssumption ==
    /\ IsFiniteSet(Hosts) /\ IsFiniteSet(Tokens)
    /\ Nobody \notin Hosts
    /\ DOMAIN CommunityOf = Hosts
    /\ {MaxGeneration, MaxSeq, CompactAt} \subseteq Nat
    /\ MaxGeneration > 0      \* a host starts with a grant
    /\ MaxSigned \in [Hosts -> 0..MaxGeneration]
    /\ \A b \in FaultBudgets : b \in [crash: Nat, error: Nat, short: Nat]

VARIABLES
    authority,   \* what the community's authority signed for each host, in order
    \* the file
    log,         \* lines of JC_RENDEZVOUS_STATE_FILE
    \* memory
    ledger,      \* highWaterMarks, revokedGrants, promotionVotes, hostAccess, ...
    head,        \* durableStateHash: the chain of events it stands for
    pending,     \* pendingRegistrations, one per host (pendingRegistrationClaims)
    listed,      \* records: the grant a host is listed under, or 0
    bound,       \* hostSockets: the grant a host's socket is bound under, or 0
    running,     \* the state file was loaded
    faults       \* crashes, append errors and short writes so far

fileVars     == <<log, head, ledger>>
volatileVars == <<pending, listed, bound>>
vars == <<authority, fileVars, volatileVars, running, faults>>

Tolerated(f) ==
    \E b \in FaultBudgets : f.crash <= b.crash /\ f.error <= b.error /\ f.short <= b.short

(***************************************************************************)
(* The authority signs, per host, grants and revocations of ever higher    *)
(* generations: entry i of authority[h] has generation i and is a grant    *)
(* (0) or the revocation of grant g (g).  A grant is named by its          *)
(* generation.                                                             *)
(***************************************************************************)
Generations == 1..MaxGeneration

Issued(h) == {g \in DOMAIN authority[h] : authority[h][g] = 0}

RevokedBy(h, r) == authority[h][r]

\* hostGrantCreate / currentHostGrant: nextHostGeneration.
SignGrant(h) ==
    /\ Len(authority[h]) < MaxSigned[h]
    /\ authority' = [authority EXCEPT ![h] = Append(@, 0)]
    /\ UNCHANGED <<fileVars, volatileVars, running, faults>>

\* hostGrantRevoke: a grant is revoked once.
SignRevocation(h, g) ==
    /\ Len(authority[h]) < MaxSigned[h]
    /\ g \in Issued(h)
    /\ \A r \in DOMAIN authority[h] : RevokedBy(h, r) # g
    /\ authority' = [authority EXCEPT ![h] = Append(@, g)]
    /\ UNCHANGED <<fileVars, volatileVars, running, faults>>

(***************************************************************************)
(* The ledger and its events.                                              *)
(***************************************************************************)
Registration == [seq: 1..MaxSeq, grant: Generations]
NoRegistration == [seq |-> 0, grant |-> 0]

Mark == [seq: 1..MaxSeq, grant: Generations, generation: Generations]
NoMark == [seq |-> 0, grant |-> 0, generation |-> 0]

Ledger == [marks: [Hosts -> Mark \cup {NoMark}],
           revoked: [Hosts -> [Generations -> 0..MaxGeneration]],
           vote: Hosts \cup {Nobody},
           access: [Hosts -> 0..MaxGeneration],
           consumed: [Tokens -> Hosts \cup {Nobody}]]

EmptyLedger == [marks |-> [h \in Hosts |-> NoMark],
                revoked |-> [h \in Hosts |-> [g \in Generations |-> 0]],
                vote |-> Nobody,
                access |-> [h \in Hosts |-> 0],
                consumed |-> [t \in Tokens |-> Nobody]]

HighWater(h, m)     == [type |-> "highWater", host |-> h, mark |-> m]
Revocation(h, g, r) == [type |-> "revocation", host |-> h, grant |-> g, generation |-> r]
Vote(c)             == [type |-> "promotionVote", host |-> c]
Access(h, g)        == [type |-> "hostAccess", host |-> h, grant |-> g]
Pairing(t, h)       == [type |-> "pairingConsumed", token |-> t, host |-> h]

\* applyHighWaterMark refuses to go back.
AppliesHighWaterMark(l, h, m) ==
    /\ m.generation >= l.marks[h].generation
    /\ m.generation = l.marks[h].generation => m.grant = l.marks[h].grant
    /\ m.seq > l.marks[h].seq

\* deviation: the highest generation of the host, whatever grant it came from
AcceptedGenerationOfHost(l, h, g) == l.marks[h].generation

\* The generation at which the bridge last accepted grant g.
AcceptedGeneration(l, h, g) ==
    IF l.marks[h].grant = g THEN l.marks[h].generation ELSE 0

\* revoke: newer than what is known of the grant, revoked or accepted.
AcceptsRevocation(l, h, g, r) ==
    /\ r > l.revoked[h][g]
    /\ r > AcceptedGeneration(l, h, g)

\* applyRevocation: remember it, and raise the floor of a mark of that grant.
ApplyRevocation(l, h, g, r) ==
    LET mark == l.marks[h]
        floored == IF mark.grant = g /\ mark.generation < r
                   THEN [mark EXCEPT !.generation = r] ELSE mark
    IN  [l EXCEPT !.revoked[h][g] = r, !.marks[h] = floored]

Apply(l, e) ==
    CASE e.type = "highWater"       -> [l EXCEPT !.marks[e.host] = e.mark]
      [] e.type = "revocation"      -> ApplyRevocation(l, e.host, e.grant, e.generation)
      [] e.type = "promotionVote"   -> [l EXCEPT !.vote = e.host]
      [] e.type = "hostAccess"      -> [l EXCEPT !.access[e.host] = e.grant]
      [] e.type = "pairingConsumed" -> [l EXCEPT !.consumed[e.token] = e.host]

(***************************************************************************)
(* The file.  A line is whole, torn (its end is missing, and so is its     *)
(* newline) or garbled (a line appended to a torn one).                    *)
(***************************************************************************)
Line(chain, e, status) == [prev |-> chain, event |-> e, status |-> status]

Garbled == [prev |-> <<>>, event |-> [type |-> "garbled"], status |-> "garbled"]

AppendLine(lines, line) ==
    IF lines # <<>> /\ Last(lines).status = "torn"
    THEN Append(Front(lines), IF line.status = "torn" THEN Last(lines) ELSE Garbled)
    ELSE Append(lines, line)

\* appendStateEvent and the application of the event to memory.
Record(f, e, status) ==
    [lines  |-> AppendLine(f.lines, Line(f.chain, e, status)),
     chain  |-> Append(f.chain, e),
     ledger |-> Apply(f.ledger, e)]

\* The file and the memory after the first n of the events es; write number `short`
\* reports no error but leaves a torn line (0: none does).
Written(es, n, short) ==
    LET after[i \in 0..n] ==
            IF i = 0 THEN [lines |-> log, chain |-> head, ledger |-> ledger]
            ELSE Record(after[i - 1], es[i], IF i = short THEN "torn" ELSE "whole")
    IN  after[n]

\* The file of the events es alone.
FileOf(es) == [i \in 1..Len(es) |-> Line(SubSeq(es, 1, i - 1), es[i], "whole")]

(***************************************************************************)
(* maybeCompactState: the events that rebuild the memory, revocations      *)
(* first.                                                                  *)
(***************************************************************************)
Revocations(l) ==
    {Revocation(x[1], x[2], l.revoked[x[1]][x[2]]) :
        x \in {y \in Hosts \X Generations : l.revoked[y[1]][y[2]] # 0}}

Pairings(l)   == {Pairing(t, l.consumed[t]) : t \in {u \in Tokens : l.consumed[u] # Nobody}}
HighWaters(l) == {HighWater(h, l.marks[h]) : h \in {k \in Hosts : l.marks[k] # NoMark}}
Votes(l)      == {Vote(c) : c \in {l.vote} \ {Nobody}}
Accesses(l)   == {Access(h, l.access[h]) : h \in {k \in Hosts : l.access[k] # 0}}

\* deviation: marks are written before the revocations that floored them
CheckpointMarksFirst(l) ==
    SetToSeq(HighWaters(l)) \o SetToSeq(Revocations(l)) \o SetToSeq(Pairings(l))
        \o SetToSeq(Votes(l)) \o SetToSeq(Accesses(l))

\* deviation: promotion votes are not carried over
CheckpointWithoutVotes(l) ==
    SetToSeq(Revocations(l)) \o SetToSeq(Pairings(l)) \o SetToSeq(HighWaters(l))
        \o SetToSeq(Accesses(l))

Checkpoint(l) ==
    SetToSeq(Revocations(l)) \o SetToSeq(Pairings(l)) \o SetToSeq(HighWaters(l))
        \o SetToSeq(Votes(l)) \o SetToSeq(Accesses(l))

(***************************************************************************)
(* loadRendezvousState: a torn last line is dropped, then every line must  *)
(* continue the chain and be acceptable to the handler that applies it.    *)
(***************************************************************************)
Recovered(lines) ==
    IF lines # <<>> /\ Last(lines).status = "torn" THEN Front(lines) ELSE lines

Replayable(l, e) ==
    CASE e.type = "highWater"     -> AppliesHighWaterMark(l, e.host, e.mark)
      [] e.type = "revocation"    -> \/ e.generation = l.revoked[e.host][e.grant]
                                     \/ AcceptsRevocation(l, e.host, e.grant, e.generation)
      [] e.type = "promotionVote" -> l.vote \in {Nobody, e.host}
      [] OTHER                    -> TRUE

ReplayLine(s, line) ==
    IF s.ok /\ line.status = "whole" /\ line.prev = s.head /\ Replayable(s.ledger, line.event)
    THEN [ok |-> TRUE, ledger |-> Apply(s.ledger, line.event), head |-> Append(s.head, line.event)]
    ELSE [s EXCEPT !.ok = FALSE]

Replay(lines) ==
    LET kept == Recovered(lines)
        after[i \in 0..Len(kept)] ==
            IF i = 0 THEN [ok |-> TRUE, ledger |-> EmptyLedger, head |-> <<>>]
            ELSE ReplayLine(after[i - 1], kept[i])
    IN  after[Len(kept)]

(***************************************************************************)
(* Outcomes of a handler that appends the events es.                       *)
(***************************************************************************)

\* Every append returns, short of an error it does not notice; then the file may
\* be compacted.
Persist(es) ==
    \E short \in 0..Len(es) :
        LET f == Written(es, Len(es), short)
        IN  /\ faults' = IF short = 0 THEN faults ELSE [faults EXCEPT !.short = @ + 1]
            /\ Tolerated(faults')
            /\ ledger' = f.ledger
            /\ IF es # <<>> /\ Len(f.chain) >= CompactAt
               THEN log' = FileOf(Checkpoint(f.ledger)) /\ head' = Checkpoint(f.ledger)
               ELSE log' = f.lines /\ head' = f.chain

\* deviation: the events are applied although they were not all appended
FailAfterApplying(es) ==
    /\ faults' = [faults EXCEPT !.error = @ + 1]
    /\ Tolerated(faults')
    /\ ledger' = Written(es, Len(es), 0).ledger
    /\ UNCHANGED <<log, head>>

\* The append after the first k throws, in the write (nothing written) or in the
\* fsync (the line is there): the handler answers `unavailable`.
FailToPersist(es) ==
    /\ faults' = [faults EXCEPT !.error = @ + 1]
    /\ Tolerated(faults')
    /\ \E k \in 0..(Len(es) - 1) :
         LET f == Written(es, k, 0)
         IN  /\ ledger' = f.ledger
             /\ head' = f.chain
             /\ log' \in {f.lines, AppendLine(f.lines, Line(f.chain, es[k + 1], "whole"))}

\* The process dies after k appends, perhaps in the middle of the next one,
\* and is started again.
CrashDuring(es) ==
    /\ faults' = [faults EXCEPT !.crash = @ + 1]
    /\ Tolerated(faults')
    /\ \E k \in 0..Len(es) :
         LET f == Written(es, k, 0)
             torn == IF k = Len(es) THEN {}
                     ELSE {AppendLine(f.lines, Line(f.chain, es[k + 1], "torn"))}
         IN \E lines \in {f.lines} \cup torn :
                LET s == Replay(lines)
                IN  /\ log' = Recovered(lines)
                    /\ running' = s.ok
                    /\ ledger' = IF s.ok THEN s.ledger ELSE ledger
                    /\ head' = IF s.ok THEN s.head ELSE head
    /\ pending' = [h \in Hosts |-> NoRegistration]
    /\ listed' = [h \in Hosts |-> 0]
    /\ bound' = [h \in Hosts |-> 0]
    /\ UNCHANGED authority

(***************************************************************************)
(* Handlers.                                                               *)
(***************************************************************************)
IsRevoked(h, g) == g <= ledger.revoked[h][g]

ScopeEstablished(h) ==
    \E k \in Hosts :
        /\ CommunityOf[k] = CommunityOf[h]
        /\ ledger.marks[k] # NoMark \/ ledger.access[k] # 0

\* issueHostAccess: the first credential of a community consumes a token, which
\* is durable before the credential.
AccessEvents(h, g, t) ==
    (IF ScopeEstablished(h) THEN <<>> ELSE <<Pairing(t, h)>>) \o <<Access(h, g)>>

MayIssueAccess(h, g, t) ==
    /\ g \in Issued(h)
    /\ ~IsRevoked(h, g)
    /\ g >= ledger.marks[h].generation
    /\ ScopeEstablished(h) \/ ledger.consumed[t] = Nobody

IssueHostAccess(h, g, t) ==
    /\ MayIssueAccess(h, g, t)
    /\ Persist(AccessEvents(h, g, t)) \/ FailToPersist(AccessEvents(h, g, t))
    /\ UNCHANGED <<authority, volatileVars, running>>

\* validateRegistration, its grant and sequence conditions.
ValidateRegistration(h, r) ==
    LET previous == ledger.marks[h]
    IN  /\ ~IsRevoked(h, r.grant)
        /\ r.grant >= previous.generation
        /\ r.grant = previous.generation => r.grant = previous.grant
        /\ \/ r.seq = previous.seq + 1
           \/ r.seq = previous.seq /\ r.grant = previous.grant

BeginRegistration(h, r) ==
    /\ pending[h] = NoRegistration
    /\ r.grant \in Issued(h)
    /\ ledger.access[h] = r.grant
    /\ ValidateRegistration(h, r)
    /\ pending' = [pending EXCEPT ![h] = r]
    /\ UNCHANGED <<authority, fileVars, listed, bound, running, faults>>

\* commitRegistration: nothing to append when the mark is already this record.
CommitEvents(h, r) ==
    IF ledger.marks[h].seq = r.seq THEN <<>>
    ELSE <<HighWater(h, [seq |-> r.seq, grant |-> r.grant, generation |-> r.grant])>>

\* deviation: what was validated at register.begin is trusted at register.prove
ProveUnchecked(h) ==
    /\ pending[h] # NoRegistration
    /\ pending' = [pending EXCEPT ![h] = NoRegistration]
    /\ Persist(CommitEvents(h, pending[h]))
    /\ listed' = [listed EXCEPT ![h] = pending[h].grant]
    /\ bound' = [bound EXCEPT ![h] = pending[h].grant]
    /\ UNCHANGED <<authority, running>>

\* proveRegistration: the pending registration is consumed and validated again.
ProveRegistration(h) ==
    LET r == pending[h]
    IN  /\ r # NoRegistration
        /\ pending' = [pending EXCEPT ![h] = NoRegistration]
        /\ \/ /\ ValidateRegistration(h, r)
              /\ Persist(CommitEvents(h, r))
              /\ listed' = [listed EXCEPT ![h] = r.grant]
              /\ bound' = [bound EXCEPT ![h] = r.grant]
           \/ /\ ValidateRegistration(h, r)
              /\ FailToPersist(CommitEvents(h, r))
              /\ UNCHANGED <<listed, bound>>
           \/ /\ ~ValidateRegistration(h, r)
              /\ UNCHANGED <<fileVars, listed, bound, faults>>
        /\ UNCHANGED <<authority, running>>

\* revoke, and applyRevocation's effect on the directory and the sockets.
Revoke(h, r) ==
    LET g == RevokedBy(h, r)
        drop(f) == [f EXCEPT ![h] = IF @ = g THEN 0 ELSE @]
    IN  /\ g # 0
        /\ AcceptsRevocation(ledger, h, g, r)
        /\ \/ /\ Persist(<<Revocation(h, g, r)>>)
              /\ listed' = drop(listed)
              /\ bound' = drop(bound)
           \/ /\ FailToPersist(<<Revocation(h, g, r)>>)
              /\ UNCHANGED <<listed, bound>>
        /\ UNCHANGED <<authority, pending, running>>

\* claimPromotionVote: one election; a repeated claim appends nothing.
ClaimPromotionVote(c) ==
    /\ ledger.vote = Nobody
    /\ Persist(<<Vote(c)>>) \/ FailToPersist(<<Vote(c)>>)
    /\ UNCHANGED <<authority, volatileVars, running>>

\* The socket closes, or the challenge or the directory entry expires (cleanup).
Disconnect(h) ==
    /\ bound[h] # 0
    /\ bound' = [bound EXCEPT ![h] = 0]
    /\ UNCHANGED <<authority, fileVars, pending, listed, running, faults>>

DropPending(h) ==
    /\ pending[h] # NoRegistration
    /\ pending' = [pending EXCEPT ![h] = NoRegistration]
    /\ UNCHANGED <<authority, fileVars, listed, bound, running, faults>>

ExpireRecord(h) ==
    /\ listed[h] # 0
    /\ listed' = [listed EXCEPT ![h] = 0]
    /\ bound' = [bound EXCEPT ![h] = 0]
    /\ UNCHANGED <<authority, fileVars, pending, running, faults>>

ExpireAccess(h) ==
    /\ ledger.access[h] # 0
    /\ ledger' = [ledger EXCEPT !.access[h] = 0]
    /\ UNCHANGED <<authority, log, head, volatileVars, running, faults>>

\* What a crash may interrupt: the appends of any handler, or none.
Interruptible ==
    {<<>>}
    \cup {AccessEvents(x[1], x[2], x[3]) :
             x \in {y \in Hosts \X Generations \X Tokens : MayIssueAccess(y[1], y[2], y[3])}}
    \cup {CommitEvents(h, pending[h]) :
             h \in {k \in Hosts : pending[k] # NoRegistration /\ ValidateRegistration(k, pending[k])}}
    \cup {<<Revocation(x[1], RevokedBy(x[1], x[2]), x[2])>> :
             x \in {y \in Hosts \X Generations :
                       /\ y[2] \in DOMAIN authority[y[1]] \ Issued(y[1])
                       /\ AcceptsRevocation(ledger, y[1], RevokedBy(y[1], y[2]), y[2])}}
    \cup {<<Vote(c)>> : c \in {k \in Hosts : ledger.vote = Nobody}}

Crash == \E es \in Interruptible : CrashDuring(es)

-----------------------------------------------------------------------------
Init ==
    /\ authority = [h \in Hosts |-> <<0>>]
    /\ log = <<>>
    /\ ledger = EmptyLedger
    /\ head = <<>>
    /\ pending = [h \in Hosts |-> NoRegistration]
    /\ listed = [h \in Hosts |-> 0]
    /\ bound = [h \in Hosts |-> 0]
    /\ running = TRUE
    /\ faults = [crash |-> 0, error |-> 0, short |-> 0]

Next ==
    \/ \E h \in Hosts : SignGrant(h)
    \/ \E h \in Hosts, g \in Generations : SignRevocation(h, g)
    \/ /\ running
       /\ \/ \E h \in Hosts, g \in Generations, t \in Tokens : IssueHostAccess(h, g, t)
          \/ \E h \in Hosts, r \in Registration : BeginRegistration(h, r)
          \/ \E h \in Hosts : ProveRegistration(h)
          \/ \E h \in Hosts : \E r \in DOMAIN authority[h] : Revoke(h, r)
          \/ \E c \in Hosts : ClaimPromotionVote(c)
          \/ \E h \in Hosts : Disconnect(h) \/ DropPending(h) \/ ExpireRecord(h) \/ ExpireAccess(h)
          \/ Crash

Spec == Init /\ [][Next]_vars

(***************************************************************************)
(* Properties.                                                             *)
(***************************************************************************)
LedgerTypeOK ==
    /\ authority \in [Hosts -> Seq(0..MaxGeneration)]
    /\ ledger \in Ledger
    /\ pending \in [Hosts -> Registration \cup {NoRegistration}]
    /\ listed \in [Hosts -> 0..MaxGeneration]
    /\ bound \in [Hosts -> 0..MaxGeneration]
    /\ running \in BOOLEAN
    /\ faults \in [crash: Nat, error: Nat, short: Nat]

\* Whatever was appended, compacted and restarted before, the file rebuilds what
\* the bridge answers from now (appendStateEvent, maybeCompactState,
\* loadRendezvousState).  Not so after an append whose fsync threw: its line may
\* be there without the answer, and the lines after it do not continue it.
ReplayRestores ==
    running /\ faults.error = 0 =>
        LET s == Replay(log)
        IN  /\ s.ok
            /\ s.head = head
            /\ \A h \in Hosts : ledger.access[h] # 0 => s.ledger.access[h] = ledger.access[h]
            /\ [s.ledger EXCEPT !.access = ledger.access] = ledger

\* Nothing is answered from memory that is not on a line of the file, also after an
\* append that threw (issueHostAccess, commitRegistration, revoke,
\* claimPromotionVote: each appends before it applies).
WrittenAhead ==
    LET recorded == {line.event : line \in {l \in ToSet(log) : l.status = "whole"}}
    IN  /\ ledger.vote # Nobody => Vote(ledger.vote) \in recorded
        /\ \A t \in Tokens :
               ledger.consumed[t] # Nobody => Pairing(t, ledger.consumed[t]) \in recorded
        /\ \A h \in Hosts :
               /\ \A g \in Generations :
                      \/ ledger.revoked[h][g] = 0
                      \/ Revocation(h, g, ledger.revoked[h][g]) \in recorded
               /\ \/ ledger.marks[h] = NoMark
                  \/ \E e \in recorded : /\ e.type = "highWater" /\ e.host = h
                                         /\ e.mark.seq = ledger.marks[h].seq
                                         /\ e.mark.grant = ledger.marks[h].grant

\* The directory and the sockets never hold a host under a grant the bridge
\* knows to be revoked, even one revoked between the two halves of a
\* registration (applyRevocation, proveRegistration).
RevokedAreOut ==
    \A h \in Hosts : \A g \in {listed[h], bound[h]} \ {0} : ~IsRevoked(h, g)

\* The newest grant of a host is never locked out by what the bridge remembers
\* of the older ones, in whatever order revocations arrived.
LatestGrantAccepted ==
    \A h \in Hosts :
        Last(authority[h]) = 0 =>
            ValidateRegistration(h, [seq   |-> ledger.marks[h].seq + 1,
                                     grant |-> Len(authority[h])])

\* A revocation the authority signed is applied or still acceptable, however
\* late it is delivered (revoke).
RevocationsAccepted ==
    \A h \in Hosts : \A r \in DOMAIN authority[h] \ Issued(h) :
        LET g == RevokedBy(h, r)
        IN  ledger.revoked[h][g] = r \/ AcceptsRevocation(ledger, h, g, r)

\* The ledger implements LedgerPromise.
Promise == INSTANCE LedgerPromise WITH
    vote    <- ledger.vote,
    owner   <- ledger.consumed,
    revoked <- ledger.revoked,
    floor   <- [h \in Hosts |-> ledger.marks[h].generation]

ImplementsPromise == Promise!Spec

\* The file rebuilds a state that is well formed.
FileIsTheState == LedgerTypeOK /\ ReplayRestores

\* What the authority of a host signs is accepted, in whatever order it arrives.
AuthorityIsAccepted == LatestGrantAccepted /\ RevocationsAccepted
=============================================================================
