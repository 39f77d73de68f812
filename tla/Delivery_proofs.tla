----------------------------- MODULE Delivery_proofs -----------------------------
(***************************************************************************)
(* Welcomes and messages survive until they are taken, for any members,    *)
(* messages, tries and faults.                                             *)
(*                                                                         *)
(* The argument: there is one welcome at most for a member, made when it   *)
(* became a leaf, wherever that is (OneWelcome): at the host, in the       *)
(* owner's outbox or in hand of a run of its reconciliation, in a request  *)
(* of the member's recovery chain, or among its receipts.  So whatever     *)
(* is pushed, asked for or handled again is that one.  Every request in a  *)
(* chain or at work is founded on what is there (WorkFounded): a welcome   *)
(* is acknowledged when its group is saved, a message when it is shown.    *)
(* What a member has shown was for it (ShownFounded), and what a message   *)
(* is sent with was completed before (AssetFounded).                       *)
(***************************************************************************)
EXTENDS Delivery, SequenceTheorems, FiniteSetTheorems, TLAPS

(***************************************************************************)
(* Types.                                                                  *)
(***************************************************************************)
Todo ==
    [do: {"publish", "pending", "drain"}]
        \cup [do: {"consume", "ackWelcome"}, of: Welcome]
        \cup [do: {"deliver", "download", "ack"}, of: Messages]

SyncRuns ==
    [at: {"idle"}]
        \cup [at: {"outbox", "members"}, todo: SUBSET Members, skip: SUBSET Members,
              left: SUBSET Welcome]
        \cup [at: {"push"}, of: Welcome, todo: SUBSET Members, skip: SUBSET Members,
              left: SUBSET Welcome]

UploadRuns ==
    [at: {"idle", "begin", "chunks", "complete", "send", "abort", "sent", "aborted", "unreachable"},
     attempt: 0..MaxAttempts, left: SUBSET Chunks]

HostTyped ==
    /\ joined \in SUBSET Members
    /\ packages \in [Members -> Nat]
    /\ welcomes \in [Members -> Welcome \cup {None}]
    /\ spool \in [Messages -> Row \cup {None}]
    /\ asset \in Asset \cup {None}

DiskTyped ==
    /\ group \in [Desktops -> Group \cup {None}]
    /\ leaves \in SUBSET joined
    /\ outbox \in [Members -> Welcome \cup {None}]
    /\ receipts \in [Members -> SUBSET Welcome]

ProcTyped ==
    /\ session \in [Desktops -> Sessions]
    /\ keys \in [Members -> SUBSET Nat]
    /\ made \in [Members -> 0..MaxKeys]
    /\ recent \in [Desktops -> SUBSET Messages]
    /\ chain \in [Desktops -> Seq(Seq(Todo))]
    /\ work \in [Desktops -> [Slots -> Seq(Todo)]]
    /\ sync \in [Syncs -> SyncRuns]
    /\ upload \in UploadRuns
    /\ rendered \in [Desktops -> SUBSET Messages]
    /\ faults \in 0..MaxFaults

(***************************************************************************)
(* What the work of a desktop is about.                                    *)
(***************************************************************************)
InWork(d, r) == \E s \in Slots : \E i \in 1..Len(work[d][s]) : work[d][s][i] = r

InChain(d, r) == \E i \in 1..Len(chain[d]) : \E j \in 1..Len(chain[d][i]) : chain[d][i][j] = r

ToDo(d, r) == InWork(d, r) \/ InChain(d, r)

\* The host keeps t for d.
KeptFor(d, t) == spool[t] \in Row /\ d \in spool[t].to

\* A request is made by who may make it, about what is there: a welcome is acknowledged
\* when it is saved, a message when it is shown.
Founded(d, r) ==
    /\ r.do \in {"publish", "consume", "ackWelcome"} => d \in Members
    /\ r.do = "ackWelcome" => r.of \in receipts[d]
    /\ r.do \in {"deliver", "download", "ack"} => KeptFor(d, r.of)
    /\ r.do \in {"download", "ack"} => spool[r.of].sender # d
    /\ r.do = "ack" => r.of \in rendered[d]

WorkFounded == \A d \in Desktops : \A r \in Todo : ToDo(d, r) => Founded(d, r)

\* Who shows a message, or has consumed it, was to have it and could.
ShownFounded ==
    /\ \A d \in Desktops : recent[d] \subseteq rendered[d]
    /\ \A d \in Desktops : \A t \in rendered[d] : KeptFor(d, t) /\ spool[t].sender # d
    /\ \A t \in Messages : spool[t] \in Row => \A d \in spool[t].consumed : t \in rendered[d]

(***************************************************************************)
(* The welcomes there are for a member, wherever.                          *)
(***************************************************************************)
InSync(w) == \E s \in Syncs : (sync[s].at = "outbox" /\ w \in sync[s].left)
                              \/ (sync[s].at = "push" /\ w = sync[s].of)

Around(m, w) ==
    \/ welcomes[m] = w \/ outbox[m] = w \/ w \in receipts[m]
    \/ InSync(w) /\ w.to = m
    \/ ToDo(m, Consume(w))

\* One, of the time when the owner added the member.
OneWelcome ==
    \A m \in Members : \A w \in Welcome :
        Around(m, w) => w.to = m /\ m \in leaves /\ \A v \in Welcome : Around(m, v) => v = w

\* A member that has a receipt has the group; a group is the owner's or one's own.
GroupSaved ==
    /\ group[Owner] # None
    /\ \A m \in Members : receipts[m] # {} => group[m] # None
    /\ \A d \in Desktops : group[d] # None => group[d].of \in {Owner, d}

SyncFounded == \A s \in Syncs : sync[s].at # "idle" => sync[s].todo \subseteq joined

KeysFounded == \A m \in Members : packages[m] \in 0..made[m] /\ keys[m] \subseteq 1..made[m]

\* What an upload has reached is there.
AssetFounded ==
    /\ asset # None /\ asset.completed => asset.chunks = Chunks
    /\ upload.at \in {"chunks", "complete", "send"} => asset # None
    /\ upload.at = "send" => asset.completed
    /\ AttachedIsWhole

Types == HostTyped /\ DiskTyped /\ ProcTyped

Inv ==
    /\ Types
    /\ WorkFounded /\ ShownFounded /\ OneWelcome /\ GroupSaved /\ SyncFounded /\ KeysFounded
    /\ AssetFounded /\ WelcomeNotLost

(***************************************************************************)
(* Requests and where they are.                                            *)
(***************************************************************************)
LEMMA TodoFacts ==
    /\ \A r \in Todo :
          /\ r.do \in {"consume", "ackWelcome"} => r.of \in Welcome /\ r = [do |-> r.do, of |-> r.of]
          /\ r.do \in {"deliver", "download", "ack"} => r.of \in Messages
    /\ {Publish, AskPending, Drain} \subseteq Todo
    /\ \A w \in Welcome : {Consume(w), AckWelcome(w)} \subseteq Todo
    /\ \A t \in Messages : {Deliver(t), Download(t), Ack(t)} \subseteq Todo
BY DEF Todo, Publish, AskPending, Drain, Consume, AckWelcome, Deliver, Download, Ack

LEMMA ConcatTail ==
    ASSUME NEW S, NEW p \in Seq(S), NEW q \in Seq(S), q # <<>>
    PROVE  /\ Head(q) \in S /\ Tail(q) \in Seq(S) /\ p \o Tail(q) \in Seq(S)
           /\ 1 \in 1..Len(q) /\ Head(q) = q[1]
           /\ \A i \in 1..Len(Tail(q)) : i + 1 \in 1..Len(q) /\ Tail(q)[i] = q[i + 1]
           /\ \A i \in 1..Len(p \o Tail(q)) :
                 \/ \E j \in 1..Len(p) : p[j] = (p \o Tail(q))[i]
                 \/ \E j \in 1..Len(q) : q[j] = (p \o Tail(q))[i]
<1> DEFINE t == Tail(q)
           u == p \o t
           m == Len(p)
           n == Len(q)
<1>1. /\ n \in Nat \ {0} /\ m \in Nat /\ t \in Seq(S) /\ Len(t) = n - 1
      /\ \A i \in 1..(n - 1) : t[i] = q[i + 1]
      /\ Head(q) \in S /\ Head(q) = q[1]
  BY HeadTailProperties, LenProperties, EmptySeq
<1> HIDE DEF t
<1>2. /\ u \in Seq(S) /\ Len(u) = m + (n - 1)
      /\ \A i \in 1..Len(u) : u[i] = IF i <= m THEN p[i] ELSE t[i - m]
  <2>1. /\ u \in Seq(S) /\ Len(u) = Len(p) + Len(t)
        /\ \A i \in 1..(Len(p) + Len(t)) : u[i] = IF i <= Len(p) THEN p[i] ELSE t[i - Len(p)]
    BY <1>1, ConcatProperties
  <2> HIDE DEF u
  <2> QED BY <2>1, <1>1
<1> HIDE DEF u, m, n
<1>3. ASSUME NEW i \in 1..Len(u)
      PROVE  (\E j \in 1..m : p[j] = u[i]) \/ (\E j \in 1..n : q[j] = u[i])
  <2>1. CASE i <= m
    BY <1>1, <1>2, <2>1
  <2>2. CASE ~(i <= m)
    <3>1. i - m \in 1..(n - 1) /\ i - m + 1 \in 1..n
      BY <1>1, <1>2, <2>2
    <3> QED BY <3>1, <1>1, <1>2, <2>2
  <2> QED BY <2>1, <2>2
<1> QED BY <1>1, <1>2, <1>3 DEF t, u, m, n

LEMMA HeadFacts ==
    ASSUME ProcTyped, NEW d \in Desktops, NEW s \in Slots, work[d][s] # <<>>
    PROVE  /\ Head(work[d][s]) \in Todo /\ ToDo(d, Head(work[d][s]))
           /\ Tail(work[d][s]) \in Seq(Todo)
<1>1. work[d][s] \in Seq(Todo) /\ <<>> \in Seq(Todo)
  BY EmptySeq DEF ProcTyped
<1>2. /\ Head(work[d][s]) \in Todo /\ Tail(work[d][s]) \in Seq(Todo)
      /\ 1 \in 1..Len(work[d][s]) /\ Head(work[d][s]) = work[d][s][1]
  BY <1>1, ConcatTail
<1> QED BY <1>2 DEF ToDo, InWork

\* What follows a request comes into the work, and nothing else.
LEMMA ThenFacts ==
    ASSUME ProcTyped, NEW d \in Desktops, NEW s \in Slots, work[d][s] # <<>>,
           NEW steps \in Seq(Todo), Then(d, s, steps), chain' = chain
    PROVE  /\ work' \in [Desktops -> [Slots -> Seq(Todo)]]
           /\ \A x \in Desktops : \A r : ToDo(x, r)' =>
                 ToDo(x, r) \/ (x = d /\ \E i \in 1..Len(steps) : steps[i] = r)
<1> DEFINE q == work[d][s]
           p == steps \o Tail(q)
<1>1. q \in Seq(Todo) /\ work \in [Desktops -> [Slots -> Seq(Todo)]]
  BY DEF ProcTyped
<1>2. /\ p \in Seq(Todo)
      /\ \A i \in 1..Len(p) :
            (\E j \in 1..Len(steps) : steps[j] = p[i]) \/ (\E j \in 1..Len(q) : q[j] = p[i])
  BY <1>1, ConcatTail
<1>3. work' = [work EXCEPT ![d][s] = p]
  BY DEF Then
<1> HIDE DEF p
<1>4. work' \in [Desktops -> [Slots -> Seq(Todo)]] /\ work'[d][s] = p
      /\ \A x \in Desktops, y \in Slots : x # d \/ y # s => work'[x][y] = work[x][y]
  BY <1>1, <1>2, <1>3
<1>5. ASSUME NEW x \in Desktops, NEW r, InWork(x, r)'
      PROVE  InWork(x, r) \/ (x = d /\ \E i \in 1..Len(steps) : steps[i] = r)
  <2>1. PICK y \in Slots : \E i \in 1..Len(work'[x][y]) : work'[x][y][i] = r
    BY <1>5 DEF InWork
  <2>2. CASE x = d /\ y = s
    <3>1. PICK i \in 1..Len(p) : p[i] = r
      BY <1>4, <2>1, <2>2
    <3>2. CASE \E j \in 1..Len(steps) : steps[j] = p[i]
      BY <2>2, <3>1, <3>2
    <3>3. CASE \E j \in 1..Len(q) : q[j] = p[i]
      BY <2>2, <3>1, <3>3 DEF InWork
    <3> QED BY <1>2, <3>1, <3>2, <3>3
  <2>3. CASE ~(x = d /\ y = s)
    BY <1>4, <2>1, <2>3 DEF InWork
  <2> QED BY <2>2, <2>3
<1>6. \A x, r : InChain(x, r)' => InChain(x, r)
  BY DEF InChain
<1> QED BY <1>4, <1>5, <1>6 DEF ToDo

LEMMA ThenNothing ==
    ASSUME ProcTyped, NEW d \in Desktops, NEW s \in Slots, work[d][s] # <<>>,
           Then(d, s, <<>>), chain' = chain
    PROVE  /\ work' \in [Desktops -> [Slots -> Seq(Todo)]]
           /\ \A x \in Desktops : \A r : ToDo(x, r)' => ToDo(x, r)
<1>1. <<>> \in Seq(Todo) /\ ~(\E i \in 1..Len(<<>>) : TRUE)
  BY EmptySeq
<1>2. /\ work' \in [Desktops -> [Slots -> Seq(Todo)]]
      /\ \A x \in Desktops : \A r : ToDo(x, r)' =>
            ToDo(x, r) \/ (x = d /\ \E i \in 1..Len(<<>>) : <<>>[i] = r)
  BY <1>1, ThenFacts
<1> QED BY <1>1, <1>2

LEMMA ThenOne ==
    ASSUME ProcTyped, NEW d \in Desktops, NEW s \in Slots, work[d][s] # <<>>,
           NEW step \in Todo, Then(d, s, <<step>>), chain' = chain
    PROVE  /\ work' \in [Desktops -> [Slots -> Seq(Todo)]]
           /\ \A x \in Desktops : \A r : ToDo(x, r)' => ToDo(x, r) \/ (x = d /\ r = step)
<1> DEFINE steps == <<step>>
<1>1. /\ steps \in Seq(Todo) /\ Then(d, s, steps)
      /\ \A i \in 1..Len(steps) : steps[i] = step
  OBVIOUS
<1> HIDE DEF steps
<1>2. /\ work' \in [Desktops -> [Slots -> Seq(Todo)]]
      /\ \A x \in Desktops : \A r : ToDo(x, r)' =>
            ToDo(x, r) \/ (x = d /\ \E i \in 1..Len(steps) : steps[i] = r)
  BY <1>1, ThenFacts
<1> QED BY <1>1, <1>2

LEMMA ThenTwo ==
    ASSUME ProcTyped, NEW d \in Desktops, NEW s \in Slots, work[d][s] # <<>>,
           NEW a \in Todo, NEW b \in Todo, Then(d, s, <<a, b>>), chain' = chain
    PROVE  /\ work' \in [Desktops -> [Slots -> Seq(Todo)]]
           /\ \A x \in Desktops : \A r : ToDo(x, r)' => ToDo(x, r) \/ (x = d /\ r \in {a, b})
<1>1. <<a, b>> \in Seq(Todo) /\ \A i \in 1..Len(<<a, b>>) : <<a, b>>[i] \in {a, b}
  OBVIOUS
<1>2. /\ work' \in [Desktops -> [Slots -> Seq(Todo)]]
      /\ \A x \in Desktops : \A r : ToDo(x, r)' =>
            ToDo(x, r) \/ (x = d /\ \E i \in 1..Len(<<a, b>>) : <<a, b>>[i] = r)
  BY <1>1, ThenFacts
<1> QED BY <1>1, <1>2

LEMMA StopFacts ==
    ASSUME ProcTyped, NEW d \in Desktops, NEW s \in Slots, Stop(d, s), chain' = chain
    PROVE  /\ work' \in [Desktops -> [Slots -> Seq(Todo)]]
           /\ \A x \in Desktops : \A r : ToDo(x, r)' => ToDo(x, r)
<1>1. /\ work' = [work EXCEPT ![d][s] = <<>>] /\ <<>> \in Seq(Todo) /\ Len(<<>>) = 0
      /\ work \in [Desktops -> [Slots -> Seq(Todo)]]
  BY EmptySeq DEF Stop, ProcTyped
<1>2. ASSUME NEW x \in Desktops, NEW r, InWork(x, r)' PROVE InWork(x, r)
  <2>1. PICK y \in Slots : \E i \in 1..Len(work'[x][y]) : work'[x][y][i] = r
    BY <1>2 DEF InWork
  <2>2. ~(x = d /\ y = s)
    BY <1>1, <2>1
  <2> QED BY <1>1, <2>1, <2>2 DEF InWork
<1>3. \A x, r : InChain(x, r)' => InChain(x, r)
  BY DEF InChain
<1> QED BY <1>1, <1>2, <1>3 DEF ToDo

LEMMA AbandonedFacts ==
    ASSUME NEW q \in Seq(Todo)
    PROVE  /\ Abandoned(q) \in Seq(Todo)
           /\ \A i \in 1..Len(Abandoned(q)) : \E j \in 1..Len(q) : q[j] = Abandoned(q)[i]
<1>1. CASE q = <<>> \/ Head(q).do = "deliver"
  BY <1>1 DEF Abandoned
<1>2. CASE ~(q = <<>> \/ Head(q).do = "deliver") /\ Head(q).do \in {"download", "ack"}
  <2>1. Abandoned(q) = Tail(q) /\ q # <<>> /\ <<>> \in Seq(Todo)
    BY <1>2, EmptySeq DEF Abandoned
  <2> QED BY <2>1, ConcatTail
<1>3. CASE ~(q = <<>> \/ Head(q).do = "deliver") /\ Head(q).do \notin {"download", "ack"}
  <2>1. Abandoned(q) = <<>> /\ <<>> \in Seq(Todo) /\ Len(<<>>) = 0
    BY <1>3, EmptySeq DEF Abandoned
  <2> QED BY <2>1
<1> QED BY <1>1, <1>2, <1>3

\* A connection that breaks, or does not: work and runs end, and none begins.
Ends ==
    /\ session' \in [Desktops -> Sessions] /\ faults' \in 0..MaxFaults
    /\ work' \in [Desktops -> [Slots -> Seq(Todo)]]
    /\ sync' \in [Syncs -> SyncRuns] /\ \A s \in Syncs : sync'[s] \in {sync[s], Idle}
    /\ \A x \in Desktops : \A r : InWork(x, r)' => InWork(x, r)

\* Whatever fails of what waits, it is less than there was.
LEMMA FailsFacts ==
    ASSUME ProcTyped, NEW d \in Desktops, NEW slots, NEW runs, Fails(d, slots, runs),
           session' \in [Desktops -> Sessions], faults' \in 0..MaxFaults
    PROVE  Ends
<1>1. /\ work \in [Desktops -> [Slots -> Seq(Todo)]] /\ sync \in [Syncs -> SyncRuns]
  BY DEF ProcTyped
<1>3. sync' \in [Syncs -> SyncRuns] /\ \A s \in Syncs : sync'[s] \in {sync[s], Idle}
  BY <1>1 DEF Fails, SyncRuns, Idle
<1>4. work' = [work EXCEPT ![d] = [s \in Slots |-> IF s \in slots THEN Abandoned(work[d][s])
                                                    ELSE work[d][s]]]
  BY DEF Fails
<1>5. \A s \in Slots : work[d][s] \in Seq(Todo) /\ Abandoned(work[d][s]) \in Seq(Todo)
  BY <1>1, AbandonedFacts
<1>6. work' \in [Desktops -> [Slots -> Seq(Todo)]]
  BY <1>1, <1>4, <1>5
<1>7. ASSUME NEW x \in Desktops, NEW r, InWork(x, r)' PROVE InWork(x, r)
  <2>1. PICK y \in Slots : \E i \in 1..Len(work'[x][y]) : work'[x][y][i] = r
    BY <1>7 DEF InWork
  <2>2. CASE x = d /\ y \in slots
    <3>1. work'[x][y] = Abandoned(work[x][y]) /\ work[x][y] \in Seq(Todo)
      BY <1>1, <1>4, <2>2
    <3> QED BY <3>1, <2>1, AbandonedFacts DEF InWork
  <2>3. CASE ~(x = d /\ y \in slots)
    <3>1. work'[x][y] = work[x][y]
      BY <1>1, <1>4, <2>3
    <3> QED BY <2>1, <3>1 DEF InWork
  <2> QED BY <2>2, <2>3
<1> QED BY <1>3, <1>6, <1>7 DEF Ends

\* The session of a connection that is replaced, or closed.
LEMMA GoneFacts ==
    ASSUME ProcTyped, NEW d \in Desktops, Replaced(d) \/ ClosedForGood(d), faults' \in 0..MaxFaults
    PROVE  Ends
<1>1. session' \in [Desktops -> Sessions]
  BY DEF ProcTyped, Replaced, ClosedForGood, Sessions
<1>2. CASE Replaced(d)
  <2>1. PICK slots, runs : Fails(d, slots, runs)
    BY <1>2 DEF Replaced
  <2> QED BY <1>1, <2>1, FailsFacts
<1>3. CASE ClosedForGood(d)
  <2>1. Fails(d, Slots, Syncs)
    BY <1>3 DEF ClosedForGood
  <2> QED BY <1>1, <2>1, FailsFacts
<1> QED BY <1>2, <1>3

LEMMA BrokenFacts ==
    ASSUME ProcTyped, NEW d \in Desktops, Broken(d)
    PROVE  Ends
<1>1. faults' \in 0..MaxFaults
  BY DeliveryAssumption DEF ProcTyped, Broken
<1>2. Replaced(d) \/ ClosedForGood(d)
  BY DEF Broken
<1> QED BY <1>1, <1>2, GoneFacts

LEMMA NothingEnds ==
    ASSUME ProcTyped, UNCHANGED <<session, work, sync, faults>>
    PROVE  Ends
BY DEF ProcTyped, Ends, InWork

\* What is enqueued comes into the chain, and nothing else.
LEMMA EnqueuedFacts ==
    ASSUME NEW what \in Seq(Todo), NEW whom, chain \in [Desktops -> Seq(Seq(Todo))],
           \A x \in Desktops : \/ chain'[x] = chain[x]
                               \/ x \in whom /\ chain'[x] = Append(chain[x], what)
    PROVE  \A x \in Desktops : \A r : InChain(x, r)' =>
              InChain(x, r) \/ (x \in whom /\ \E i \in 1..Len(what) : what[i] = r)
<1> SUFFICES ASSUME NEW x \in Desktops, NEW r, InChain(x, r)'
             PROVE  InChain(x, r) \/ (x \in whom /\ \E i \in 1..Len(what) : what[i] = r)
  OBVIOUS
<1>1. CASE chain'[x] = chain[x]
  BY <1>1 DEF InChain
<1>2. CASE x \in whom /\ chain'[x] = Append(chain[x], what)
  <2>1. /\ chain[x] \in Seq(Seq(Todo)) /\ Len(chain[x]) \in Nat
        /\ Len(chain'[x]) = Len(chain[x]) + 1
        /\ \A i \in 1..Len(chain[x]) : chain'[x][i] = chain[x][i]
        /\ chain'[x][Len(chain[x]) + 1] = what
    BY <1>2, AppendProperties, LenProperties
  <2>2. PICK i \in 1..Len(chain'[x]) : \E j \in 1..Len(chain'[x][i]) : chain'[x][i][j] = r
    BY DEF InChain
  <2>3. i \in 1..Len(chain[x]) \/ i = Len(chain[x]) + 1
    BY <2>1, <2>2
  <2> QED BY <1>2, <2>1, <2>2, <2>3 DEF InChain
<1> QED BY <1>1, <1>2

\* An event comes to the chain of who has a session.
LEMMA PushedFacts ==
    ASSUME ProcTyped, NEW what \in Seq(Todo), NEW whom, chain' = Pushed(what, whom)
    PROVE  /\ chain' \in [Desktops -> Seq(Seq(Todo))]
           /\ \A x \in Desktops : \A r : InChain(x, r)' =>
                 InChain(x, r) \/ (x \in whom /\ \E i \in 1..Len(what) : what[i] = r)
<1>1. /\ chain \in [Desktops -> Seq(Seq(Todo))] /\ chain' \in [Desktops -> Seq(Seq(Todo))]
      /\ \A x \in Desktops : chain'[x] = chain[x] \/ (x \in whom /\ chain'[x] = Append(chain[x], what))
  BY AppendProperties DEF ProcTyped, Pushed
<1> QED BY <1>1, EnqueuedFacts

(***************************************************************************)
(* What is founded stays so.                                               *)
(***************************************************************************)
Grows ==
    /\ \A m \in Members : receipts[m] \subseteq receipts'[m]
    /\ \A d \in Desktops : rendered[d] \subseteq rendered'[d]
    /\ \A t \in Messages : spool[t] \in Row =>
          spool'[t] \in Row /\ spool'[t].to = spool[t].to /\ spool'[t].sender = spool[t].sender

LEMMA FoundedStays ==
    ASSUME Grows, NEW d \in Desktops, NEW r \in Todo, Founded(d, r)
    PROVE  Founded(d, r)'
BY TodoFacts DEF Grows, Founded, KeptFor

LEMMA WorkStep ==
    ASSUME WorkFounded, Grows,
           \A d \in Desktops : \A r \in Todo : ToDo(d, r)' => ToDo(d, r) \/ Founded(d, r)'
    PROVE  WorkFounded'
<1> SUFFICES ASSUME NEW d \in Desktops, NEW r \in Todo, ToDo(d, r)' PROVE Founded(d, r)'
  BY DEF WorkFounded
<1>1. CASE ToDo(d, r)
  BY <1>1, FoundedStays DEF WorkFounded
<1>2. CASE ~ToDo(d, r)
  BY <1>2
<1> QED BY <1>1, <1>2

LEMMA OneStep ==
    ASSUME OneWelcome, leaves \subseteq leaves',
           \A m \in Members : \A w \in Welcome : Around(m, w)' => Around(m, w)
    PROVE  OneWelcome'
<1> SUFFICES ASSUME NEW m \in Members, NEW w \in Welcome, Around(m, w)',
                    NEW v \in Welcome, Around(m, v)'
             PROVE  w.to = m /\ m \in leaves' /\ v = w
  <2>1. ASSUME NEW m \in Members, NEW w \in Welcome, Around(m, w)',
               \A v \in Welcome : Around(m, v)' => w.to = m /\ m \in leaves' /\ v = w
        PROVE  w.to = m /\ m \in leaves' /\ \A v \in Welcome : Around(m, v)' => v = w
    BY <2>1
  <2> QED BY <2>1 DEF OneWelcome
<1> QED BY DEF OneWelcome

\* A step that touches no welcome but in the work.
LEMMA AroundStep ==
    ASSUME UNCHANGED <<welcomes, outbox, receipts>>,
           \A s \in Syncs : sync'[s] \in {sync[s], Idle},
           \A m \in Members : \A w \in Welcome : ToDo(m, Consume(w))' => Around(m, w)
    PROVE  \A m \in Members : \A w \in Welcome : Around(m, w)' => Around(m, w)
<1>1. \A w : InSync(w)' => InSync(w)
  BY DEF InSync, Idle
<1> QED BY <1>1 DEF Around

(***************************************************************************)
(* The requests of a desktop.                                              *)
(***************************************************************************)
LEMMA MembersAreDesktops == Members \subseteq Desktops /\ Owner \in Desktops /\ Owner \notin Members
BY DeliveryAssumption DEF Desktops

\* What is at the head of the work, by what it is.
LEMMA DoingFacts ==
    ASSUME Types, WorkFounded, NEW d \in Desktops, NEW s \in Slots, NEW what, Doing(d, s, what)
    PROVE  /\ work[d][s] # <<>> /\ Head(work[d][s]) \in Todo /\ Head(work[d][s]).do = what
           /\ Founded(d, Head(work[d][s])) /\ ToDo(d, Head(work[d][s]))
<1>1. work[d][s] # <<>> /\ Head(work[d][s]).do = what
  BY DEF Doing
<1> QED BY <1>1, HeadFacts DEF Types, WorkFounded

LEMMA PublishSound ==
    ASSUME Inv, NEW d \in Desktops, NEW s \in Slots, PublishKey(d, s)
    PROVE  Inv'
<1>1. d \in Members /\ work[d][s] # <<>> /\ Doing(d, s, "publish")
  BY DoingFacts DEF Inv, PublishKey, Founded
<1>3. /\ work' \in [Desktops -> [Slots -> Seq(Todo)]]
      /\ \A x \in Desktops : \A r : ToDo(x, r)' => ToDo(x, r)
  BY <1>1, ThenNothing DEF Inv, Types, PublishKey
<1>4. UNCHANGED <<joined, welcomes, spool, asset, diskVars, session, recent, chain, sync, upload,
                  rendered, faults>>
  BY DEF PublishKey
<1>5. /\ made' \in [Members -> 0..MaxKeys] /\ packages' \in [Members -> Nat]
      /\ keys' \in [Members -> SUBSET Nat] /\ KeysFounded'
  <2>1. MaxKeys \in Nat
    BY DeliveryAssumption
  <2>2. /\ made \in [Members -> 0..MaxKeys] /\ packages \in [Members -> Nat]
        /\ keys \in [Members -> SUBSET Nat]
        /\ \A m \in Members : packages[m] \in 0..made[m] /\ keys[m] \subseteq 1..made[m]
    BY DEF Inv, Types, HostTyped, ProcTyped, KeysFounded
  <2>3. CASE made[d] < MaxKeys
    <3>1. /\ made' = [made EXCEPT ![d] = @ + 1] /\ keys' = [keys EXCEPT ![d] = @ \cup {made[d] + 1}]
          /\ packages' = [packages EXCEPT ![d] = made[d] + 1]
          /\ made[d] + 1 \in 0..MaxKeys /\ made[d] \in Nat
      BY <1>1, <2>1, <2>2, <2>3 DEF PublishKey
    <3>2. /\ made' \in [Members -> 0..MaxKeys] /\ packages' \in [Members -> Nat]
          /\ keys' \in [Members -> SUBSET Nat]
      BY <1>1, <2>2, <3>1
    <3>3. ASSUME NEW m \in Members PROVE packages'[m] \in 0..made'[m] /\ keys'[m] \subseteq 1..made'[m]
      <4>1. CASE m = d
        BY <1>1, <2>2, <3>1, <4>1
      <4>2. CASE m # d
        BY <1>1, <2>2, <3>1, <4>2
      <4> QED BY <4>1, <4>2
    <3> QED BY <3>2, <3>3 DEF KeysFounded
  <2>4. CASE ~(made[d] < MaxKeys)
    BY <2>2, <2>4 DEF PublishKey, KeysFounded
  <2> QED BY <2>3, <2>4
<1>6. Types'
  BY <1>3, <1>4, <1>5 DEF Inv, Types, HostTyped, DiskTyped, ProcTyped, diskVars
<1>7. WorkFounded'
  BY <1>3, <1>4, WorkStep DEF Inv, Grows, diskVars
<1>8. OneWelcome'
  <2>1. \A m \in Members : \A w \in Welcome : Around(m, w)' => Around(m, w)
    BY <1>3, <1>4, MembersAreDesktops, AroundStep DEF diskVars, Around
  <2> QED BY <1>4, <2>1, OneStep DEF Inv, diskVars
<1> QED BY <1>4, <1>5, <1>6, <1>7, <1>8
        DEF Inv, ShownFounded, KeptFor, GroupSaved, SyncFounded, AssetFounded, AttachedIsWhole,
            WelcomeNotLost, diskVars

LEMMA Pair ==
    ASSUME NEW a \in Todo, NEW b \in Todo
    PROVE  <<a>> \o <<b>> = <<a, b>>
<1> DEFINE p == <<a>>
           q == <<b>>
           u == p \o q
<1>1. /\ p \in Seq(Todo) /\ Len(p) = 1 /\ p[1] = a
      /\ q \in Seq(Todo) /\ Len(q) = 1 /\ q[1] = b
      /\ <<a, b>> \in Seq(Todo) /\ Len(<<a, b>>) = 2 /\ <<a, b>>[1] = a /\ <<a, b>>[2] = b
  OBVIOUS
<1> HIDE DEF p, q
<1>2. /\ u \in Seq(Todo) /\ Len(u) = Len(p) + Len(q)
      /\ \A i \in 1..(Len(p) + Len(q)) : u[i] = IF i <= Len(p) THEN p[i] ELSE q[i - Len(p)]
  BY <1>1, ConcatProperties
<1> HIDE DEF u
<1>3. Len(u) = 2 /\ u[1] = a /\ u[2] = b
  BY <1>1, <1>2
<1> DEFINE v == <<a, b>>
<1>4. v \in Seq(Todo) /\ Len(v) = 2 /\ v[1] = a /\ v[2] = b
  BY <1>1
<1> HIDE DEF v
<1>5. u = v
  BY <1>2, <1>3, <1>4, SeqEqual
<1> QED BY <1>5 DEF u, v, p, q

LEMMA PendingSound ==
    ASSUME Inv, NEW d \in Desktops, NEW s \in Slots, Pending(d, s)
    PROVE  Inv'
<1>1. work[d][s] # <<>> /\ Types /\ ProcTyped /\ WorkFounded /\ OneWelcome
  BY DoingFacts DEF Inv, Pending, Types
<1>2. UNCHANGED <<hostVars, diskVars, session, keys, made, recent, chain, sync, upload, rendered, faults>>
  BY DEF Pending
<1>3. /\ work' \in [Desktops -> [Slots -> Seq(Todo)]]
      /\ \A x \in Desktops : \A r : ToDo(x, r)' =>
            \/ ToDo(x, r) \/ r = Drain
            \/ x = d /\ d \in Members /\ welcomes[d] \in Welcome /\ r = Consume(welcomes[d])
  <2>1. CASE ~(d # Owner /\ welcomes[d] # None)
    <3>1. Then(d, s, <<>>)
      BY <2>1 DEF Pending
    <3> QED BY <1>1, <1>2, <3>1, ThenNothing
  <2>2. CASE d # Owner /\ welcomes[d] # None
    <3>1. d \in Members /\ welcomes[d] \in Welcome
      BY <1>1, <2>2 DEF Types, HostTyped, Desktops
    <3>2. Consume(welcomes[d]) \in Todo /\ Drain \in Todo
      BY <3>1, TodoFacts
    <3>3. CASE s = "join"
      <4>1. Then(d, s, <<Consume(welcomes[d])>> \o <<Drain>>)
        BY <2>2, <3>3 DEF Pending
      <4>2. <<Consume(welcomes[d])>> \o <<Drain>> = <<Consume(welcomes[d]), Drain>>
        BY <3>2, Pair
      <4>3. Then(d, s, <<Consume(welcomes[d]), Drain>>)
        BY <4>1, <4>2
      <4> QED BY <1>1, <1>2, <3>1, <3>2, <4>3, ThenTwo
    <3>4. CASE s # "join"
      <4>1. Then(d, s, <<Consume(welcomes[d])>> \o <<>>)
        BY <2>2, <3>4 DEF Pending
      <4>2. Then(d, s, <<Consume(welcomes[d])>>)
        BY <4>1
      <4> QED BY <1>1, <1>2, <3>1, <3>2, <4>2, ThenOne
    <3> QED BY <3>3, <3>4
  <2> QED BY <2>1, <2>2
<1>4. Types'
  BY <1>1, <1>2, <1>3 DEF Types, HostTyped, DiskTyped, ProcTyped, hostVars, diskVars
<1>5. WorkFounded'
  <2>1. Grows
    BY <1>2 DEF Grows, hostVars, diskVars
  <2>2. \A x \in Desktops : \A r \in Todo : ToDo(x, r)' => ToDo(x, r) \/ Founded(x, r)'
    BY <1>3 DEF Founded, Drain, Consume
  <2> QED BY <1>1, <2>1, <2>2, WorkStep
<1>6. OneWelcome'
  <2>1. \A m \in Members : \A w \in Welcome : ToDo(m, Consume(w))' => Around(m, w)
    BY <1>3, MembersAreDesktops DEF Around, Consume, Drain
  <2>2. \A m \in Members : \A w \in Welcome : Around(m, w)' => Around(m, w)
    BY <1>2, <2>1, AroundStep DEF hostVars, diskVars
  <2> QED BY <1>1, <1>2, <2>2, OneStep DEF diskVars
<1> QED BY <1>2, <1>4, <1>5, <1>6
        DEF Inv, ShownFounded, KeptFor, GroupSaved, SyncFounded, KeysFounded, AssetFounded,
            AttachedIsWhole, WelcomeNotLost, hostVars, diskVars

\* A welcome that is to be consumed is the one there is for the desktop.
LEMMA ConsumeSound ==
    ASSUME Inv, NEW d \in Desktops, NEW s \in Slots, ConsumeWelcome(d, s)
    PROVE  Inv'
<1> DEFINE w == Head(work[d][s]).of
<1>1. work[d][s] # <<>> /\ Types /\ ProcTyped /\ WorkFounded /\ OneWelcome
      /\ d \in Members /\ w \in Welcome /\ Around(d, w) /\ w \in Welcome
  <2>1. /\ work[d][s] # <<>> /\ Head(work[d][s]) \in Todo /\ Head(work[d][s]).do = "consume"
        /\ Founded(d, Head(work[d][s])) /\ ToDo(d, Head(work[d][s]))
    BY DoingFacts DEF Inv, ConsumeWelcome
  <2>2. w \in Welcome /\ Head(work[d][s]) = Consume(w)
    BY <2>1, TodoFacts DEF Consume
  <2> QED BY <2>1, <2>2 DEF Around, Founded, Inv, Types
<1>2. UNCHANGED <<hostVars, leaves, outbox, session, made, recent, chain, sync, upload, rendered, faults>>
  BY DEF ConsumeWelcome
<1> HIDE DEF w
<1>3. CASE w \in receipts[d]
  <2>1. Then(d, s, <<AckWelcome(w)>>) /\ UNCHANGED <<group, receipts, keys>>
    BY <1>3 DEF ConsumeWelcome, w
  <2>2. /\ work' \in [Desktops -> [Slots -> Seq(Todo)]]
        /\ \A x \in Desktops : \A r : ToDo(x, r)' => ToDo(x, r) \/ (x = d /\ r = AckWelcome(w))
    BY <1>1, <1>2, <2>1, TodoFacts, ThenOne
  <2>3. Types'
    BY <1>1, <1>2, <2>1, <2>2 DEF Types, HostTyped, DiskTyped, ProcTyped, hostVars
  <2>4. WorkFounded'
    <3>1. Grows
      BY <1>2, <2>1 DEF Grows, hostVars
    <3>2. \A x \in Desktops : \A r \in Todo : ToDo(x, r)' => ToDo(x, r) \/ Founded(x, r)'
      BY <1>1, <1>3, <2>1, <2>2 DEF Founded, AckWelcome
    <3> QED BY <1>1, <3>1, <3>2, WorkStep
  <2>5. OneWelcome'
    <3>1. \A m \in Members : \A v \in Welcome : ToDo(m, Consume(v))' => Around(m, v)
      BY <2>2, MembersAreDesktops DEF Around, Consume, AckWelcome
    <3>2. \A m \in Members : \A v \in Welcome : Around(m, v)' => Around(m, v)
      BY <1>2, <2>1, <3>1, AroundStep DEF hostVars
    <3> QED BY <1>1, <1>2, <3>2, OneStep
  <2> QED BY <1>2, <2>1, <2>3, <2>4, <2>5
          DEF Inv, ShownFounded, KeptFor, GroupSaved, SyncFounded, KeysFounded, AssetFounded,
              AttachedIsWhole, WelcomeNotLost, hostVars
<1>4. CASE w \notin receipts[d] /\ w.key \in keys[d]
  <2>1. /\ group' = [group EXCEPT ![d] = [of |-> Owner, epoch |-> w.epoch]]
        /\ receipts' = [receipts EXCEPT ![d] = @ \cup {w}]
        /\ keys' = [keys EXCEPT ![d] = @ \ {w.key}]
        /\ Then(d, s, <<Publish, AckWelcome(w)>>)
    BY <1>4 DEF ConsumeWelcome, w
  <2>2. /\ work' \in [Desktops -> [Slots -> Seq(Todo)]]
        /\ \A x \in Desktops : \A r : ToDo(x, r)' =>
              ToDo(x, r) \/ (x = d /\ r \in {Publish, AckWelcome(w)})
    BY <1>1, <1>2, <2>1, TodoFacts, ThenTwo
  <2>3. /\ group' \in [Desktops -> Group \cup {None}] /\ receipts' \in [Members -> SUBSET Welcome]
        /\ keys' \in [Members -> SUBSET Nat]
        /\ group'[d] \in Group /\ group'[d].of = Owner
        /\ \A x \in Desktops : x # d => group'[x] = group[x]
        /\ receipts'[d] = receipts[d] \cup {w} /\ \A m \in Members : m # d => receipts'[m] = receipts[m]
        /\ \A m \in Members : keys'[m] \subseteq keys[m]
    BY <1>1, <2>1, MembersAreDesktops DEF Types, DiskTyped, ProcTyped, Group, Welcome
  <2>4. Types'
    BY <1>1, <1>2, <2>2, <2>3 DEF Types, HostTyped, DiskTyped, ProcTyped, hostVars
  <2>5. WorkFounded'
    <3>1. Grows
      BY <1>2, <2>3 DEF Grows, hostVars
    <3>2. \A x \in Desktops : \A r \in Todo : ToDo(x, r)' => ToDo(x, r) \/ Founded(x, r)'
      BY <1>1, <2>2, <2>3 DEF Founded, AckWelcome, Publish
    <3> QED BY <1>1, <3>1, <3>2, WorkStep
  <2>6. OneWelcome'
    <3>1. \A m \in Members : \A v : ToDo(m, Consume(v))' => ToDo(m, Consume(v))
      BY <2>2, MembersAreDesktops DEF Consume, AckWelcome, Publish
    <3>2. \A v : InSync(v)' => InSync(v)
      BY <1>2 DEF InSync
    <3>3. \A m \in Members : \A v \in Welcome : Around(m, v)' => Around(m, v)
      BY <1>1, <1>2, <2>3, <3>1, <3>2 DEF Around, hostVars
    <3> QED BY <1>1, <1>2, <3>3, OneStep
  <2>7. GroupSaved'
    <3>1. None \notin Group
      BY NoneAssumption
    <3>2. group'[Owner] # None
      BY <1>1, <2>3, MembersAreDesktops DEF Inv, GroupSaved
    <3>3. \A m \in Members : receipts'[m] # {} => group'[m] # None
      BY <2>3, <3>1, MembersAreDesktops DEF Inv, GroupSaved
    <3>4. \A x \in Desktops : group'[x] # None => group'[x].of \in {Owner, x}
      BY <2>3 DEF Inv, GroupSaved
    <3> QED BY <3>2, <3>3, <3>4 DEF GroupSaved
  <2>8. KeysFounded' /\ WelcomeNotLost'
    <3>1. ASSUME NEW m \in Members PROVE packages'[m] \in 0..made'[m] /\ keys'[m] \subseteq 1..made'[m]
      <4>1. packages[m] \in 0..made[m] /\ keys[m] \subseteq 1..made[m]
        BY DEF Inv, KeysFounded
      <4> QED BY <4>1, <1>2, <2>3 DEF hostVars
    <3>2. ASSUME NEW m \in leaves
          PROVE  receipts'[m] # {} \/ outbox'[m] # None \/ welcomes'[m] # None
      <4>1. m \in Members
        BY <1>1 DEF Types, DiskTyped, HostTyped
      <4>2. receipts[m] # {} \/ outbox[m] # None \/ welcomes[m] # None
        BY DEF Inv, WelcomeNotLost
      <4> QED BY <4>1, <4>2, <1>2, <2>3 DEF hostVars
    <3> QED BY <3>1, <3>2, <1>2 DEF KeysFounded, WelcomeNotLost
  <2> QED BY <1>2, <2>4, <2>5, <2>6, <2>7, <2>8
          DEF Inv, ShownFounded, KeptFor, SyncFounded, AssetFounded, AttachedIsWhole, hostVars
<1>5. CASE w \notin receipts[d] /\ w.key \notin keys[d]
  <2>1. Stop(d, s) /\ UNCHANGED <<group, receipts, keys>>
    BY <1>5 DEF ConsumeWelcome, w
  <2>2. /\ work' \in [Desktops -> [Slots -> Seq(Todo)]]
        /\ \A x \in Desktops : \A r : ToDo(x, r)' => ToDo(x, r)
    BY <1>1, <1>2, <2>1, StopFacts
  <2>3. Types'
    BY <1>1, <1>2, <2>1, <2>2 DEF Types, HostTyped, DiskTyped, ProcTyped, hostVars
  <2>4. WorkFounded'
    BY <1>1, <1>2, <2>1, <2>2, WorkStep DEF Grows, hostVars
  <2>5. OneWelcome'
    <3>2. \A m \in Members : \A v \in Welcome : Around(m, v)' => Around(m, v)
      BY <1>2, <2>1, <2>2, MembersAreDesktops, AroundStep DEF hostVars, Around
    <3> QED BY <1>1, <1>2, <3>2, OneStep
  <2> QED BY <1>2, <2>1, <2>3, <2>4, <2>5
          DEF Inv, ShownFounded, KeptFor, GroupSaved, SyncFounded, KeysFounded, AssetFounded,
              AttachedIsWhole, WelcomeNotLost, hostVars
<1> QED BY <1>3, <1>4, <1>5

LEMMA AckWelcomeSound ==
    ASSUME Inv, NEW d \in Desktops, NEW s \in Slots, AcknowledgeWelcome(d, s)
    PROVE  Inv'
<1> DEFINE w == Head(work[d][s]).of
<1>1. /\ work[d][s] # <<>> /\ Types /\ ProcTyped /\ WorkFounded /\ OneWelcome
      /\ d \in Members /\ w \in receipts[d]
  BY DoingFacts DEF Inv, AcknowledgeWelcome, Founded, Types
<1> HIDE DEF w
<1>2. UNCHANGED <<joined, packages, spool, asset, diskVars, session, keys, made, recent, chain, sync,
                  upload, rendered, faults>>
  BY DEF AcknowledgeWelcome
<1>3. /\ work' \in [Desktops -> [Slots -> Seq(Todo)]]
      /\ \A x \in Desktops : \A r : ToDo(x, r)' => ToDo(x, r)
  BY <1>1, <1>2, ThenNothing DEF AcknowledgeWelcome
<1>4. /\ welcomes' \in [Members -> Welcome \cup {None}]
      /\ \A m \in Members : welcomes'[m] = welcomes[m] \/ (m = d /\ welcomes'[m] = None)
  BY <1>1 DEF AcknowledgeWelcome, Types, HostTyped
<1>5. Types'
  BY <1>1, <1>2, <1>3, <1>4 DEF Types, HostTyped, DiskTyped, ProcTyped, diskVars
<1>6. WorkFounded'
  BY <1>1, <1>2, <1>3, WorkStep DEF Grows, diskVars
<1>7. OneWelcome'
  <2>1. \A v : InSync(v)' => InSync(v)
    BY <1>2 DEF InSync
  <2>2. None \notin Welcome
    BY NoneAssumption
  <2>3. \A m \in Members : \A v \in Welcome : Around(m, v)' => Around(m, v)
    BY <1>2, <1>3, <1>4, <2>1, <2>2, MembersAreDesktops DEF Around, diskVars
  <2> QED BY <1>1, <1>2, <2>3, OneStep DEF diskVars
<1>8. WelcomeNotLost'
  BY <1>1, <1>2, <1>4 DEF Inv, WelcomeNotLost, diskVars, Types, DiskTyped, HostTyped
<1> QED BY <1>2, <1>5, <1>6, <1>7, <1>8
        DEF Inv, ShownFounded, KeptFor, GroupSaved, SyncFounded, KeysFounded, AssetFounded,
            AttachedIsWhole, diskVars

(***************************************************************************)
(* Messages.                                                               *)
(***************************************************************************)
\* A step of the work that is about messages only.
LEMMA MessageStep ==
    ASSUME Inv, work' \in [Desktops -> [Slots -> Seq(Todo)]],
           UNCHANGED <<joined, packages, welcomes, asset, diskVars, session, keys, made, chain, sync,
                       upload, faults>>,
           recent' \in [Desktops -> SUBSET Messages], rendered' \in [Desktops -> SUBSET Messages],
           spool' \in [Messages -> Row \cup {None}], Grows, ShownFounded',
           \A t \in Messages : spool'[t] = None <=> spool[t] = None,
           \A d \in Desktops : \A r \in Todo : ToDo(d, r)' =>
               ToDo(d, r) \/ (r.do # "consume" /\ Founded(d, r)')
    PROVE  Inv'
<1>1. Types'
  BY DEF Inv, Types, HostTyped, DiskTyped, ProcTyped, diskVars
<1>2. WorkFounded'
  BY WorkStep DEF Inv
<1>3. OneWelcome'
  <2>1. \A m \in Members : \A w \in Welcome : ToDo(m, Consume(w))' => Around(m, w)
    BY MembersAreDesktops, TodoFacts DEF Around, Consume
  <2>2. \A m \in Members : \A w \in Welcome : Around(m, w)' => Around(m, w)
    BY <2>1, AroundStep DEF diskVars
  <2> QED BY <2>2, OneStep DEF Inv, diskVars
<1>4. AssetFounded'
  <2>1. Attached \subseteq Messages
    BY DeliveryAssumption
  <2> QED BY <2>1 DEF Inv, AssetFounded, AttachedIsWhole
<1> QED BY <1>1, <1>2, <1>3, <1>4
        DEF Inv, GroupSaved, SyncFounded, KeysFounded, WelcomeNotLost, diskVars

LEMMA DrainSound ==
    ASSUME Inv, NEW d \in Desktops, NEW s \in Slots, DrainPending(d, s)
    PROVE  Inv'
<1> DEFINE X == {t \in Messages : spool[t] # None /\ d \in spool[t].to}
           n == Cardinality(X)
<1>1. work[d][s] # <<>> /\ Types /\ ProcTyped
  BY DoingFacts DEF Inv, DrainPending, Types
<1>2. UNCHANGED <<hostVars, diskVars, session, keys, made, recent, chain, sync, upload, rendered, faults>>
  BY DEF DrainPending
<1>3. PICK order \in [1..n -> X] : Then(d, s, [i \in DOMAIN order |-> Deliver(order[i])])
  BY DEF DrainPending
<1>4. n \in Nat
  <2>1. IsFiniteSet(Messages)
    BY DeliveryAssumption
  <2>2. IsFiniteSet(X)
    BY <2>1, FS_Subset
  <2> QED BY <2>2, FS_CardinalityType
<1>5. \A t \in X : t \in Messages /\ KeptFor(d, t)
  BY <1>1 DEF Types, HostTyped, KeptFor
<1> DEFINE steps == [i \in 1..n |-> Deliver(order[i])]
<1> HIDE DEF X, n
<1>6. \A i \in 1..n : order[i] \in X /\ Deliver(order[i]) \in Todo
  BY <1>3, <1>5, TodoFacts
<1>7. steps \in Seq(Todo) /\ Then(d, s, steps) /\ Len(steps) = n
  <2>1. DOMAIN order = 1..n
    BY <1>3
  <2>2. steps \in Seq(Todo)
    <3>1. steps \in [1..n -> Todo]
      BY <1>6
    <3> HIDE DEF steps
    <3> QED BY <1>4, <3>1, SeqDef
  <2>3. Len(steps) \in Nat /\ DOMAIN steps = 1..Len(steps)
    BY <2>2, LenProperties
  <2>4. DOMAIN steps = 1..n
    OBVIOUS
  <2>5. Len(steps) = n
    <3>1. PICK k \in Nat : k = Len(steps) /\ 1..k = 1..n
      BY <2>3, <2>4
    <3>2. (k \in 1..n \/ k = 0) /\ (n \in 1..k \/ n = 0)
      BY <1>4, <3>1
    <3> HIDE DEF steps
    <3> QED BY <1>4, <3>1, <3>2
  <2> QED BY <1>3, <2>1, <2>2, <2>5
<1>8. \A i \in 1..Len(steps) : steps[i].do = "deliver" /\ KeptFor(d, steps[i].of)
  BY <1>5, <1>6, <1>7 DEF Deliver
<1> HIDE DEF steps
<1>9. /\ work' \in [Desktops -> [Slots -> Seq(Todo)]]
      /\ \A x \in Desktops : \A r : ToDo(x, r)' =>
            ToDo(x, r) \/ (x = d /\ \E i \in 1..Len(steps) : steps[i] = r)
  BY <1>1, <1>2, <1>7, ThenFacts
<1>10. Grows /\ ShownFounded'
  BY <1>2 DEF Grows, Inv, ShownFounded, KeptFor, hostVars, diskVars
<1>11. \A x \in Desktops : \A r \in Todo : ToDo(x, r)' =>
          ToDo(x, r) \/ (r.do # "consume" /\ Founded(x, r)')
  BY <1>2, <1>8, <1>9 DEF Founded, KeptFor, hostVars
<1> QED BY <1>1, <1>2, <1>9, <1>10, <1>11, MessageStep
        DEF hostVars, Types, HostTyped, ProcTyped

LEMMA ThenNeeds ==
    ASSUME ProcTyped, NEW d \in Desktops, NEW s \in Slots, work[d][s] # <<>>,
           NEW step \in Todo, Then(d, s, Needs(d, step)), chain' = chain
    PROVE  /\ work' \in [Desktops -> [Slots -> Seq(Todo)]]
           /\ \A x \in Desktops : \A r : ToDo(x, r)' => ToDo(x, r) \/ (x = d /\ r = step)
<1>1. CASE IsOpen(d)
  BY <1>1, ThenOne DEF Needs
<1>2. CASE ~IsOpen(d)
  BY <1>2, ThenNothing DEF Needs
<1> QED BY <1>1, <1>2

\* A message that the desktop may show is shown.
LEMMA ShownFacts ==
    ASSUME Inv, NEW d \in Desktops, NEW t \in Messages, Shown(d, t), KeptFor(d, t),
           spool[t].sender # d, UNCHANGED <<spool, receipts>>
    PROVE  /\ recent' \in [Desktops -> SUBSET Messages] /\ rendered' \in [Desktops -> SUBSET Messages]
           /\ t \in rendered'[d] /\ Grows /\ ShownFounded'
<1>1. /\ recent \in [Desktops -> SUBSET Messages] /\ rendered \in [Desktops -> SUBSET Messages]
      /\ spool \in [Messages -> Row \cup {None}]
  BY DEF Inv, Types, HostTyped, ProcTyped
<1>2. /\ recent' \in [Desktops -> SUBSET Messages] /\ rendered' \in [Desktops -> SUBSET Messages]
      /\ rendered'[d] = rendered[d] \cup {t} /\ recent'[d] = recent[d] \cup {t}
      /\ \A x \in Desktops : x # d => rendered'[x] = rendered[x] /\ recent'[x] = recent[x]
  BY <1>1 DEF Shown
<1>3. Grows
  BY <1>2 DEF Grows
<1>4. ShownFounded'
  <2>1. \A x \in Desktops : recent'[x] \subseteq rendered'[x]
    BY <1>2 DEF Inv, ShownFounded
  <2>2. \A x \in Desktops : \A y \in rendered'[x] : KeptFor(x, y)' /\ spool'[y].sender # x
    BY <1>2 DEF Inv, ShownFounded, KeptFor
  <2>3. ASSUME NEW y \in Messages, spool[y] \in Row, NEW x \in spool[y].consumed PROVE y \in rendered'[x]
    <3>1. x \in Desktops /\ y \in rendered[x]
      BY <2>3 DEF Row, Inv, ShownFounded
    <3> QED BY <3>1, <1>2
  <2> QED BY <2>1, <2>2, <2>3 DEF ShownFounded
<1> QED BY <1>2, <1>3, <1>4

LEMMA HandleSound ==
    ASSUME Inv, NEW d \in Desktops, NEW s \in Slots, HandleDelivered(d, s)
    PROVE  Inv'
<1>0. PICK t : t = Head(work[d][s]).of
  OBVIOUS
<1>1. /\ work[d][s] # <<>> /\ Types /\ ProcTyped /\ t \in Messages /\ KeptFor(d, t)
  BY <1>0, DoingFacts, TodoFacts DEF Inv, HandleDelivered, Founded, Types
<1>2. UNCHANGED <<hostVars, diskVars, session, keys, made, chain, sync, upload, faults>>
  BY DEF HandleDelivered
<1>3. {Ack(t), Download(t)} \subseteq Todo
  BY <1>1, TodoFacts
<1>a. ASSUME UNCHANGED <<recent, rendered>>
      PROVE  /\ Grows /\ ShownFounded'
             /\ recent' \in [Desktops -> SUBSET Messages] /\ rendered' \in [Desktops -> SUBSET Messages]
  BY <1>1, <1>2, <1>a DEF Grows, Inv, ShownFounded, KeptFor, hostVars, diskVars, ProcTyped
<1>b. ASSUME work' \in [Desktops -> [Slots -> Seq(Todo)]], Grows, ShownFounded',
             recent' \in [Desktops -> SUBSET Messages], rendered' \in [Desktops -> SUBSET Messages],
             \A x \in Desktops : \A r \in Todo : ToDo(x, r)' =>
               ToDo(x, r) \/ (r.do # "consume" /\ Founded(x, r)')
      PROVE  Inv'
  BY <1>1, <1>2, <1>b, MessageStep DEF hostVars, Types, HostTyped
<1>4. CASE t \in recent[d]
  <2>1. Then(d, s, Needs(d, Ack(t))) /\ UNCHANGED <<recent, rendered>>
    BY <1>0, <1>4 DEF HandleDelivered
  <2>2. spool[t].sender # d /\ t \in rendered[d]
    BY <1>4 DEF Inv, ShownFounded
  <2>3. /\ work' \in [Desktops -> [Slots -> Seq(Todo)]]
        /\ \A x \in Desktops : \A r : ToDo(x, r)' => ToDo(x, r) \/ (x = d /\ r = Ack(t))
    BY <1>1, <1>2, <1>3, <2>1, ThenNeeds
  <2>4. Founded(d, Ack(t))' /\ Ack(t).do # "consume"
    BY <1>1, <1>2, <2>1, <2>2 DEF Founded, Ack, KeptFor, hostVars
  <2>5. \A x \in Desktops : \A r \in Todo : ToDo(x, r)' =>
          ToDo(x, r) \/ (r.do # "consume" /\ Founded(x, r)')
    BY <2>3, <2>4
  <2> QED BY <2>1, <2>3, <2>5, <1>a, <1>b
<1>5. CASE t \notin recent[d] /\ ~Readable(d, t)
  <2>1. Then(d, s, <<>>) /\ UNCHANGED <<recent, rendered>>
    BY <1>0, <1>5 DEF HandleDelivered
  <2>2. /\ work' \in [Desktops -> [Slots -> Seq(Todo)]]
        /\ \A x \in Desktops : \A r : ToDo(x, r)' => ToDo(x, r)
    BY <1>1, <1>2, <2>1, ThenNothing
  <2> QED BY <2>1, <2>2, <1>a, <1>b
<1>6. CASE t \notin recent[d] /\ Readable(d, t) /\ t \in Attached
  <2>1. Then(d, s, Needs(d, Download(t))) /\ UNCHANGED <<recent, rendered>> /\ spool[t].sender # d
    BY <1>0, <1>6 DEF HandleDelivered, Readable
  <2>2. /\ work' \in [Desktops -> [Slots -> Seq(Todo)]]
        /\ \A x \in Desktops : \A r : ToDo(x, r)' => ToDo(x, r) \/ (x = d /\ r = Download(t))
    BY <1>1, <1>2, <1>3, <2>1, ThenNeeds
  <2>3. Founded(d, Download(t))' /\ Download(t).do # "consume"
    BY <1>1, <1>2, <2>1 DEF Founded, Download, KeptFor, hostVars
  <2>4. \A x \in Desktops : \A r \in Todo : ToDo(x, r)' =>
          ToDo(x, r) \/ (r.do # "consume" /\ Founded(x, r)')
    BY <2>2, <2>3
  <2> QED BY <2>1, <2>2, <2>4, <1>a, <1>b
<1>7. CASE t \notin recent[d] /\ Readable(d, t) /\ t \notin Attached
  <2>1. Then(d, s, Needs(d, Ack(t))) /\ Shown(d, t) /\ spool[t].sender # d
    BY <1>0, <1>7 DEF HandleDelivered, Readable
  <2>2. /\ work' \in [Desktops -> [Slots -> Seq(Todo)]]
        /\ \A x \in Desktops : \A r : ToDo(x, r)' => ToDo(x, r) \/ (x = d /\ r = Ack(t))
    BY <1>1, <1>2, <1>3, <2>1, ThenNeeds
  <2>3. /\ recent' \in [Desktops -> SUBSET Messages] /\ rendered' \in [Desktops -> SUBSET Messages]
        /\ t \in rendered'[d] /\ Grows /\ ShownFounded'
    BY <1>1, <1>2, <2>1, ShownFacts DEF hostVars, diskVars
  <2>4. Founded(d, Ack(t))' /\ Ack(t).do # "consume"
    BY <1>1, <1>2, <2>1, <2>3 DEF Founded, Ack, KeptFor, hostVars
  <2>5. \A x \in Desktops : \A r \in Todo : ToDo(x, r)' =>
          ToDo(x, r) \/ (r.do # "consume" /\ Founded(x, r)')
    BY <2>2, <2>4
  <2> QED BY <2>2, <2>3, <2>5, <1>b
<1> QED BY <1>4, <1>5, <1>6, <1>7

LEMMA DownloadSound ==
    ASSUME Inv, NEW d \in Desktops, NEW s \in Slots, DownloadAttachment(d, s)
    PROVE  Inv'
<1>0. PICK t : t = Head(work[d][s]).of
  OBVIOUS
<1>1. /\ work[d][s] # <<>> /\ Types /\ ProcTyped /\ t \in Messages /\ KeptFor(d, t)
      /\ spool[t].sender # d
  BY <1>0, DoingFacts, TodoFacts DEF Inv, DownloadAttachment, Founded, Types
<1>2. UNCHANGED <<hostVars, diskVars, session, keys, made, chain, sync, upload, faults>>
  BY DEF DownloadAttachment
<1>3. Ack(t) \in Todo
  BY <1>1, TodoFacts
<1>4. CASE Shown(d, t) /\ Then(d, s, <<Ack(t)>>)
  <2>2. /\ work' \in [Desktops -> [Slots -> Seq(Todo)]]
        /\ \A x \in Desktops : \A r : ToDo(x, r)' => ToDo(x, r) \/ (x = d /\ r = Ack(t))
    BY <1>1, <1>2, <1>3, <1>4, ThenOne
  <2>3. /\ recent' \in [Desktops -> SUBSET Messages] /\ rendered' \in [Desktops -> SUBSET Messages]
        /\ t \in rendered'[d] /\ Grows /\ ShownFounded'
    BY <1>1, <1>2, <1>4, ShownFacts DEF hostVars, diskVars
  <2>4. Founded(d, Ack(t))' /\ Ack(t).do # "consume"
    BY <1>1, <1>2, <2>3 DEF Founded, Ack, KeptFor, hostVars
  <2>5. \A x \in Desktops : \A r \in Todo : ToDo(x, r)' =>
          ToDo(x, r) \/ (r.do # "consume" /\ Founded(x, r)')
    BY <2>2, <2>4
  <2> QED BY <1>1, <1>2, <2>2, <2>3, <2>5, MessageStep DEF hostVars, Types, HostTyped
<1>5. CASE Then(d, s, <<>>) /\ UNCHANGED <<recent, rendered>>
  <2>2. /\ work' \in [Desktops -> [Slots -> Seq(Todo)]]
        /\ \A x \in Desktops : \A r : ToDo(x, r)' => ToDo(x, r)
    BY <1>1, <1>2, <1>5, ThenNothing
  <2>3. Grows /\ ShownFounded'
    BY <1>2, <1>5 DEF Grows, Inv, ShownFounded, KeptFor, hostVars, diskVars
  <2> QED BY <1>1, <1>2, <1>5, <2>2, <2>3, MessageStep DEF hostVars, Types, HostTyped, ProcTyped
<1> QED BY <1>0, <1>4, <1>5 DEF DownloadAttachment

LEMMA AckSound ==
    ASSUME Inv, NEW d \in Desktops, NEW s \in Slots, AckConsumed(d, s)
    PROVE  Inv'
<1>0. PICK t : t = Head(work[d][s]).of
  OBVIOUS
<1>1. /\ work[d][s] # <<>> /\ Types /\ ProcTyped /\ t \in Messages /\ KeptFor(d, t)
      /\ spool[t].sender # d /\ t \in rendered[d]
  BY <1>0, DoingFacts, TodoFacts DEF Inv, AckConsumed, Founded, Types
<1>2. UNCHANGED <<joined, packages, welcomes, asset, diskVars, session, keys, made, recent, chain,
                  sync, upload, rendered, faults>>
  BY DEF AckConsumed
<1>3. /\ work' \in [Desktops -> [Slots -> Seq(Todo)]]
      /\ \A x \in Desktops : \A r : ToDo(x, r)' => ToDo(x, r)
  BY <1>1, <1>2, ThenNothing DEF AckConsumed
<1>4. spool' = [spool EXCEPT ![t].consumed = @ \cup {d}]
  BY <1>0 DEF AckConsumed
<1>5. /\ spool' \in [Messages -> Row \cup {None}] /\ spool'[t] \in Row
      /\ spool'[t].to = spool[t].to /\ spool'[t].sender = spool[t].sender
      /\ spool'[t].consumed = spool[t].consumed \cup {d}
      /\ \A y \in Messages : y # t => spool'[y] = spool[y]
  <2>1. spool \in [Messages -> Row \cup {None}] /\ spool[t] \in Row
    BY <1>1 DEF Types, HostTyped, KeptFor
  <2>2. [spool[t] EXCEPT !.consumed = @ \cup {d}] \in Row
    BY <2>1 DEF Row
  <2> QED BY <2>1, <2>2, <1>1, <1>4 DEF Row
<1>6. None \notin Row
  BY NoneAssumption
<1>7. Grows
  BY <1>2, <1>5 DEF Grows, diskVars
<1>8. ShownFounded'
  <2>1. ASSUME NEW x \in Desktops, NEW y \in rendered[x]
        PROVE  KeptFor(x, y)' /\ spool'[y].sender # x
    <3>1. y \in Messages /\ spool[y] \in Row /\ x \in spool[y].to /\ spool[y].sender # x
      BY <1>1 DEF Inv, ShownFounded, KeptFor, ProcTyped
    <3>2. spool'[y] \in Row /\ spool'[y].to = spool[y].to /\ spool'[y].sender = spool[y].sender
      <4>1. CASE y = t
        BY <1>5, <4>1
      <4>2. CASE y # t
        BY <1>5, <3>1, <4>2
      <4> QED BY <4>1, <4>2
    <3> QED BY <3>1, <3>2 DEF KeptFor
  <2>2. \A y \in Messages : spool'[y] \in Row => \A x \in spool'[y].consumed : y \in rendered[x]
    BY <1>1, <1>5 DEF Inv, ShownFounded, KeptFor
  <2> QED BY <1>2, <2>1, <2>2 DEF Inv, ShownFounded
<1>9. \A y \in Messages : spool'[y] = None <=> spool[y] = None
  BY <1>1, <1>5, <1>6 DEF KeptFor
<1> QED BY <1>1, <1>2, <1>3, <1>5, <1>7, <1>8, <1>9, MessageStep DEF ProcTyped

(***************************************************************************)
(* Sessions.                                                               *)
(***************************************************************************)
\* A step that changes neither who has which welcome nor which keys are made.
LEMMA StepSound ==
    ASSUME Inv, UNCHANGED <<packages, welcomes, leaves, outbox, receipts, made>>,
           joined' \in SUBSET Members, joined \subseteq joined',
           group' \in [Desktops -> Group \cup {None}], GroupSaved',
           spool' \in [Messages -> Row \cup {None}], Grows, ShownFounded',
           asset' \in Asset \cup {None}, AssetFounded',
           ProcTyped', \A m \in Members : keys'[m] \subseteq keys[m],
           \A s \in Syncs : sync'[s] \in {sync[s], Idle},
           \A d \in Desktops : \A r \in Todo : ToDo(d, r)' =>
               ToDo(d, r) \/ (r.do # "consume" /\ Founded(d, r)')
    PROVE  Inv'
<1>1. Types'
  BY DEF Inv, Types, HostTyped, DiskTyped
<1>2. WorkFounded'
  BY WorkStep DEF Inv
<1>3. OneWelcome'
  <2>1. \A m \in Members : \A w \in Welcome : ToDo(m, Consume(w))' => Around(m, w)
    BY MembersAreDesktops, TodoFacts DEF Around, Consume
  <2>2. \A m \in Members : \A w \in Welcome : Around(m, w)' => Around(m, w)
    BY <2>1, AroundStep
  <2> QED BY <2>2, OneStep DEF Inv
<1>4. SyncFounded'
  BY DEF Inv, SyncFounded, Idle
<1>5. KeysFounded'
  <2>1. \A m \in Members : packages[m] \in 0..made[m] /\ keys[m] \subseteq 1..made[m]
    BY DEF Inv, KeysFounded
  <2> QED BY <2>1 DEF KeysFounded
<1>6. WelcomeNotLost'
  BY DEF Inv, WelcomeNotLost
<1> QED BY <1>1, <1>2, <1>3, <1>4, <1>5, <1>6 DEF Inv

LEMMA Quiet ==
    ASSUME Inv, UNCHANGED <<receipts, rendered, spool>>,
           \A d \in Desktops : recent'[d] \subseteq recent[d]
    PROVE  Grows /\ ShownFounded'
BY DEF Inv, Grows, ShownFounded, KeptFor

LEMMA FailedFacts ==
    ASSUME upload \in UploadRuns
    PROVE  /\ Failed(upload) \in UploadRuns
           /\ Failed(upload).at \notin {"chunks", "complete", "send"}
<1>1. MaxAttempts \in Nat /\ upload.attempt \in 0..MaxAttempts /\ upload.left \in SUBSET Chunks
  BY DeliveryAssumption DEF UploadRuns
<1>2. CASE upload.at \in {"begin", "chunks", "complete"}
  <2>1. Failed(upload) = Retried(upload)
    BY <1>2 DEF Failed
  <2> QED BY <1>1, <2>1 DEF Retried, UploadRuns
<1>3. CASE upload.at = "send"
  <2>1. Failed(upload) = [upload EXCEPT !.at = "abort"]
    BY <1>3 DEF Failed
  <2> QED BY <2>1 DEF UploadRuns
<1>4. CASE upload.at = "abort"
  <2>1. Failed(upload) = [upload EXCEPT !.at = "unreachable"]
    BY <1>4 DEF Failed
  <2> QED BY <2>1 DEF UploadRuns
<1>5. CASE upload.at \notin {"begin", "chunks", "complete", "send", "abort"}
  <2>1. Failed(upload) = upload
    BY <1>5 DEF Failed
  <2> QED BY <1>5, <2>1
<1> QED BY <1>2, <1>3, <1>4, <1>5

\* What the upload does while the attachment stays as it is.
LEMMA AssetKept ==
    ASSUME AssetFounded, UNCHANGED <<asset, spool>>,
           upload'.at \in {"chunks", "complete", "send"} => upload'.at = upload.at
    PROVE  AssetFounded'
BY DEF AssetFounded, AttachedIsWhole

LEMMA ReplacedFacts ==
    ASSUME ProcTyped, NEW d \in Desktops, NEW s \in Slots, NEW q \in Seq(Todo),
           work' = [work EXCEPT ![d][s] = q]
    PROVE  /\ work' \in [Desktops -> [Slots -> Seq(Todo)]]
           /\ \A x \in Desktops : \A r : InWork(x, r)' =>
                 InWork(x, r) \/ (x = d /\ \E i \in 1..Len(q) : q[i] = r)
<1>1. /\ work' \in [Desktops -> [Slots -> Seq(Todo)]] /\ work'[d][s] = q
      /\ \A x \in Desktops, y \in Slots : x # d \/ y # s => work'[x][y] = work[x][y]
  BY DEF ProcTyped
<1>2. ASSUME NEW x \in Desktops, NEW r, InWork(x, r)'
      PROVE  InWork(x, r) \/ (x = d /\ \E i \in 1..Len(q) : q[i] = r)
  <2>1. PICK y \in Slots : \E i \in 1..Len(work'[x][y]) : work'[x][y][i] = r
    BY <1>2 DEF InWork
  <2>2. CASE x = d /\ y = s
    BY <1>1, <2>1, <2>2
  <2>3. CASE ~(x = d /\ y = s)
    BY <1>1, <2>1, <2>3 DEF InWork
  <2> QED BY <2>2, <2>3
<1> QED BY <1>1, <1>2

LEMMA UploadFailsFacts ==
    ASSUME upload \in UploadRuns, NEW d \in Desktops, UploadFails(d)
    PROVE  /\ upload' \in UploadRuns
           /\ upload'.at \in {"chunks", "complete", "send"} => upload' = upload
BY FailedFacts DEF UploadFails

\* A connection breaks or is closed.
LEMMA GoneSound ==
    ASSUME Inv, NEW d \in Desktops, Ends, UploadFails(d),
           UNCHANGED <<hostVars, diskVars, keys, made, recent, chain, rendered>>
    PROVE  Inv'
<1>1. Types /\ ProcTyped /\ AssetFounded /\ upload \in UploadRuns
  BY DEF Inv, Types, ProcTyped
<1>4. /\ upload' \in UploadRuns
      /\ upload'.at \in {"chunks", "complete", "send"} => upload'.at = upload.at
  BY <1>1, UploadFailsFacts
<1>5. AssetFounded'
  BY <1>1, <1>4, AssetKept DEF hostVars
<1>6. Grows /\ ShownFounded'
  BY Quiet DEF hostVars, diskVars
<1>7. ProcTyped'
  BY <1>1, <1>4 DEF ProcTyped, Ends
<1>8. \A x \in Desktops : \A r : ToDo(x, r)' => ToDo(x, r)
  BY DEF ToDo, Ends, InChain
<1>9. GroupSaved' /\ \A s \in Syncs : sync'[s] \in {sync[s], Idle}
  BY DEF Inv, GroupSaved, diskVars, Ends
<1> QED BY <1>1, <1>5, <1>6, <1>7, <1>8, <1>9, StepSound
        DEF hostVars, diskVars, Types, HostTyped, DiskTyped

LEMMA LoseSound ==
    ASSUME Inv, NEW d \in Desktops, Lose(d)
    PROVE  Inv'
<1>1. ProcTyped /\ Broken(d)
  BY DEF Inv, Types, Lose
<1>2. Ends
  BY <1>1, BrokenFacts
<1> QED BY <1>2, GoneSound DEF Lose

LEMMA CloseSound ==
    ASSUME Inv, NEW d \in Desktops, Close(d)
    PROVE  Inv'
<1>1. ProcTyped /\ ClosedForGood(d) /\ faults' \in 0..MaxFaults
  BY DEF Inv, Types, ProcTyped, Close
<1>2. Ends
  BY <1>1, GoneFacts
<1> QED BY <1>2, GoneSound DEF Close

LEMMA ReconnectSound ==
    ASSUME Inv, NEW d \in Desktops, Reconnect(d)
    PROVE  Inv'
<1>1. Types /\ ProcTyped /\ AssetFounded
  BY DEF Inv, Types
<1>2. /\ UNCHANGED <<hostVars, diskVars, keys, made, recent, work, sync, upload, rendered, faults>>
      /\ session' = [session EXCEPT ![d] = "recovered"]
      /\ chain' = [chain EXCEPT ![d] = Append(@, <<AskPending, Drain>>)]
  BY DEF Reconnect
<1> DEFINE what == <<AskPending, Drain>>
<1>3. what \in Seq(Todo) /\ \A i \in 1..Len(what) : what[i] \in {AskPending, Drain}
  BY TodoFacts
<1> HIDE DEF what
<1>4. /\ chain' \in [Desktops -> Seq(Seq(Todo))] /\ chain \in [Desktops -> Seq(Seq(Todo))]
      /\ \A x \in Desktops :
            chain'[x] = chain[x] \/ (x \in {d} /\ chain'[x] = Append(chain[x], what))
  <2>1. chain' = [chain EXCEPT ![d] = Append(@, what)]
    BY <1>2 DEF what
  <2> QED BY <1>1, <1>3, <2>1, AppendProperties DEF ProcTyped
<1>5. \A x \in Desktops : \A r : InChain(x, r)' => InChain(x, r) \/ r \in {AskPending, Drain}
  BY <1>3, <1>4, EnqueuedFacts, ZenonT(60)
<1>6. \A x \in Desktops : \A r \in Todo : ToDo(x, r)' =>
          ToDo(x, r) \/ (r.do # "consume" /\ Founded(x, r)')
  BY <1>2, <1>5 DEF ToDo, InWork, Founded, AskPending, Drain
<1>7. Grows /\ ShownFounded'
  BY <1>2, Quiet DEF hostVars, diskVars
<1>8. ProcTyped'
  BY <1>1, <1>2, <1>4 DEF ProcTyped, Sessions, Open
<1>9. GroupSaved' /\ AssetFounded'
  BY <1>1, <1>2, AssetKept DEF Inv, GroupSaved, hostVars, diskVars
<1> QED BY <1>1, <1>2, <1>6, <1>7, <1>8, <1>9, StepSound
        DEF hostVars, diskVars, Types, HostTyped, DiskTyped

LEMMA TakeNextSound ==
    ASSUME Inv, NEW d \in Desktops, TakeNext(d)
    PROVE  Inv'
<1>1. Types /\ ProcTyped /\ AssetFounded
  BY DEF Inv, Types
<1>2. /\ UNCHANGED <<hostVars, diskVars, session, keys, made, recent, sync, upload, rendered, faults>>
      /\ chain[d] # <<>> /\ chain' = [chain EXCEPT ![d] = Tail(@)]
  BY DEF TakeNext
<1>3. /\ chain[d] \in Seq(Seq(Todo)) /\ Head(chain[d]) \in Seq(Todo) /\ Tail(chain[d]) \in Seq(Seq(Todo))
      /\ 1 \in 1..Len(chain[d]) /\ Head(chain[d]) = chain[d][1]
      /\ \A i \in 1..Len(Tail(chain[d])) : i + 1 \in 1..Len(chain[d]) /\ Tail(chain[d])[i] = chain[d][i + 1]
  <2>1. chain[d] \in Seq(Seq(Todo)) /\ <<>> \in Seq(Seq(Todo))
    BY <1>1, EmptySeq DEF ProcTyped
  <2> QED BY <1>2, <2>1, ConcatTail
<1>4. /\ chain' \in [Desktops -> Seq(Seq(Todo))] /\ chain'[d] = Tail(chain[d])
      /\ \A x \in Desktops : x # d => chain'[x] = chain[x]
  BY <1>1, <1>2, <1>3 DEF ProcTyped
<1>5. \A x \in Desktops : \A r : InChain(x, r)' => InChain(x, r)
  <2> SUFFICES ASSUME NEW x \in Desktops, NEW r, InChain(x, r)' PROVE InChain(x, r)
    OBVIOUS
  <2>1. CASE x = d
    <3>0. PICK rest : rest = Tail(chain[d])
      OBVIOUS
    <3>1. /\ chain'[d] = rest
          /\ \A i \in 1..Len(rest) : i + 1 \in 1..Len(chain[d]) /\ rest[i] = chain[d][i + 1]
      BY <1>3, <1>4, <3>0
    <3>2. PICK i \in 1..Len(rest) : \E j \in 1..Len(rest[i]) : rest[i][j] = r
      BY <2>1, <3>1 DEF InChain
    <3>3. i + 1 \in 1..Len(chain[d]) /\ \E j \in 1..Len(chain[d][i + 1]) : chain[d][i + 1][j] = r
      BY <3>1, <3>2
    <3> QED BY <2>1, <3>3 DEF InChain
  <2>2. CASE x # d
    BY <1>4, <2>2 DEF InChain
  <2> QED BY <2>1, <2>2
<1>6. /\ work' \in [Desktops -> [Slots -> Seq(Todo)]]
      /\ \A x \in Desktops : \A r : InWork(x, r)' => ToDo(x, r)
  <2>1. CASE IsOpen(d)
    <3>1. work' = [work EXCEPT ![d]["chain"] = Head(chain[d])] /\ "chain" \in Slots
      BY <2>1 DEF TakeNext, Slots
    <3>2. PICK q : q = Head(chain[d]) /\ q \in Seq(Todo)
      BY <1>3
    <3>3. PICK slot \in Slots : work' = [work EXCEPT ![d][slot] = q]
      BY <3>1, <3>2
    <3>4. /\ work' \in [Desktops -> [Slots -> Seq(Todo)]]
          /\ \A x \in Desktops : \A r : InWork(x, r)' =>
                InWork(x, r) \/ (x = d /\ \E i \in 1..Len(q) : q[i] = r)
      <4>1. ProcTyped /\ q \in Seq(Todo)
        BY <1>1, <3>2
      <4> QED BY <3>3, <4>1, ReplacedFacts
    <3>5. 1 \in 1..Len(chain[d]) /\ chain[d][1] = q
      BY <1>3, <3>2
    <3>6. ASSUME NEW i \in 1..Len(q) PROVE InChain(d, q[i])
      <4>1. i \in 1..Len(chain[d][1]) /\ chain[d][1][i] = q[i]
        BY <3>5
      <4> QED BY <3>5, <4>1 DEF InChain
    <3> QED BY <3>4, <3>6 DEF ToDo
  <2>2. CASE ~IsOpen(d)
    BY <1>1, <2>2 DEF TakeNext, ToDo, InWork, ProcTyped
  <2> QED BY <2>1, <2>2
<1>7. Grows /\ ShownFounded'
  BY <1>2, Quiet DEF hostVars, diskVars
<1>8. ProcTyped'
  BY <1>1, <1>2, <1>4, <1>6 DEF ProcTyped
<1>9. /\ GroupSaved' /\ AssetFounded'
      /\ \A x \in Desktops : \A r : ToDo(x, r)' => ToDo(x, r)
  BY <1>1, <1>2, <1>5, <1>6, AssetKept DEF Inv, GroupSaved, hostVars, diskVars, ToDo
<1> QED BY <1>1, <1>2, <1>7, <1>8, <1>9, StepSound
        DEF hostVars, diskVars, Types, HostTyped, DiskTyped

LEMMA RestartSound ==
    ASSUME Inv, NEW d \in Desktops, Restart(d)
    PROVE  Inv'
<1>1. Types /\ ProcTyped /\ AssetFounded
  BY DEF Inv, Types
<1>2. UNCHANGED <<hostVars, diskVars, made, rendered>> /\ <<>> \in Seq(Todo) /\ <<>> \in Seq(Seq(Todo))
  BY EmptySeq DEF Restart
<1>3. /\ session' \in [Desktops -> Sessions] /\ faults' \in 0..MaxFaults
      /\ keys' \in [Members -> SUBSET Nat] /\ \A m \in Members : keys'[m] \subseteq keys[m]
      /\ recent' \in [Desktops -> SUBSET Messages] /\ \A x \in Desktops : recent'[x] \subseteq recent[x]
  <2>1. MaxFaults \in Nat
    BY DeliveryAssumption
  <2>2. session' \in [Desktops -> Sessions] /\ faults' \in 0..MaxFaults
    BY <1>1, <2>1 DEF Restart, ProcTyped, Sessions
  <2>3. keys' \in [Members -> SUBSET Nat] /\ \A m \in Members : keys'[m] \subseteq keys[m]
    BY <1>1 DEF Restart, ProcTyped
  <2>4. recent' \in [Desktops -> SUBSET Messages] /\ \A x \in Desktops : recent'[x] \subseteq recent[x]
    BY <1>1 DEF Restart, ProcTyped
  <2> QED BY <2>2, <2>3, <2>4
<1>4. /\ chain' \in [Desktops -> Seq(Seq(Todo))] /\ chain'[d] = <<>>
      /\ \A x \in Desktops : x # d => chain'[x] = chain[x]
      /\ work' \in [Desktops -> [Slots -> Seq(Todo)]] /\ \A s \in Slots : work'[d][s] = <<>>
      /\ \A x \in Desktops : x # d => work'[x] = work[x]
  BY <1>1, <1>2 DEF Restart, ProcTyped
<1>5. \A x \in Desktops : \A r : ToDo(x, r)' => ToDo(x, r)
  <2>1. Len(<<>>) = 0
    OBVIOUS
  <2> SUFFICES ASSUME NEW x \in Desktops, NEW r, ToDo(x, r)' PROVE ToDo(x, r)
    OBVIOUS
  <2>2. x # d
    BY <1>4, <2>1 DEF ToDo, InWork, InChain
  <2> QED BY <1>4, <2>2, ZenonT(60) DEF ToDo, InWork, InChain
<1>6. sync' \in [Syncs -> SyncRuns] /\ \A s \in Syncs : sync'[s] \in {sync[s], Idle}
  BY <1>1 DEF Restart, ProcTyped, SyncRuns, Idle
<1>7. /\ upload' \in UploadRuns
      /\ upload'.at \in {"chunks", "complete", "send"} => upload'.at = upload.at
  BY <1>1 DEF Restart, ProcTyped, UploadRuns
<1>8. Grows /\ ShownFounded'
  BY <1>2, <1>3, Quiet DEF hostVars, diskVars
<1>9. ProcTyped'
  BY <1>1, <1>2, <1>3, <1>4, <1>6, <1>7 DEF ProcTyped
<1>10. GroupSaved' /\ AssetFounded'
  BY <1>1, <1>2, <1>7, AssetKept DEF Inv, GroupSaved, hostVars, diskVars
<1> QED BY <1>1, <1>2, <1>3, <1>5, <1>6, <1>8, <1>9, <1>10, StepSound
        DEF hostVars, diskVars, Types, HostTyped, DiskTyped

LEMMA JoinSound ==
    ASSUME Inv, NEW m \in Members, Join(m)
    PROVE  Inv'
<1>1. Types /\ ProcTyped /\ AssetFounded /\ m \in Desktops
  BY MembersAreDesktops DEF Inv, Types
<1>2. UNCHANGED <<packages, welcomes, spool, asset, diskVars, keys, made, recent, chain, sync,
                  upload, rendered, faults>>
  BY DEF Join
<1> DEFINE q == <<Publish, AskPending>>
<1>3. q \in Seq(Todo) /\ \A i \in 1..Len(q) : q[i] \in {Publish, AskPending}
  BY TodoFacts
<1>4. work' = [work EXCEPT ![m]["join"] = q] /\ "join" \in Slots
  BY DEF Join, Slots
<1> HIDE DEF q
<1>5. /\ work' \in [Desktops -> [Slots -> Seq(Todo)]]
      /\ \A x \in Desktops : \A r : InWork(x, r)' => InWork(x, r) \/ (x = m /\ r \in {Publish, AskPending})
  <2>1. /\ work' \in [Desktops -> [Slots -> Seq(Todo)]]
        /\ \A x \in Desktops : \A r : InWork(x, r)' =>
              InWork(x, r) \/ (x = m /\ \E i \in 1..Len(q) : q[i] = r)
    BY <1>1, <1>3, <1>4, ReplacedFacts
  <2> QED BY <1>3, <2>1
<1>6. \A x \in Desktops : \A r \in Todo : ToDo(x, r)' =>
          ToDo(x, r) \/ (r.do # "consume" /\ Founded(x, r)')
  BY <1>2, <1>5 DEF ToDo, InChain, Founded, AskPending, Publish
<1>7. Grows /\ ShownFounded'
  BY <1>2, Quiet DEF diskVars
<1>8. ProcTyped' /\ joined' \in SUBSET Members /\ joined \subseteq joined'
  BY <1>1, <1>2, <1>5 DEF ProcTyped, Sessions, Open, Join, Types, HostTyped
<1>9. GroupSaved' /\ AssetFounded'
  BY <1>1, <1>2, AssetKept DEF Inv, GroupSaved, diskVars
<1> QED BY <1>1, <1>2, <1>6, <1>7, <1>8, <1>9, StepSound
        DEF diskVars, Types, HostTyped, DiskTyped

LEMMA ActivateSound ==
    ASSUME Inv, NEW d \in Desktops, Activate(d)
    PROVE  Inv'
<1>1. Types /\ ProcTyped /\ AssetFounded
  BY DEF Inv, Types
<1>2. UNCHANGED <<hostVars, leaves, outbox, receipts, keys, made, recent, chain, sync, upload,
                  rendered, faults>>
  BY DEF Activate
<1> DEFINE q == <<Publish>>
<1>3. q \in Seq(Todo) /\ (\A i \in 1..Len(q) : q[i] = Publish) /\ "join" \in Slots
  BY TodoFacts DEF Slots
<1> HIDE DEF q
<1>5. /\ work' \in [Desktops -> [Slots -> Seq(Todo)]]
      /\ \A x \in Desktops : \A r : InWork(x, r)' => InWork(x, r) \/ (x \in Members /\ r = Publish)
  <2>1. CASE d = Owner
    BY <1>1, <2>1 DEF Activate, ProcTyped, InWork
  <2>2. CASE d # Owner
    <3>1. work' = [work EXCEPT ![d]["join"] = q] /\ d \in Members
      BY <2>2 DEF Activate, Desktops, q
    <3>2. /\ work' \in [Desktops -> [Slots -> Seq(Todo)]]
          /\ \A x \in Desktops : \A r : InWork(x, r)' =>
                InWork(x, r) \/ (x = d /\ \E i \in 1..Len(q) : q[i] = r)
      BY <1>1, <1>3, <3>1, ReplacedFacts
    <3> QED BY <1>3, <3>1, <3>2
  <2> QED BY <2>1, <2>2
<1>6. \A x \in Desktops : \A r \in Todo : ToDo(x, r)' =>
          ToDo(x, r) \/ (r.do # "consume" /\ Founded(x, r)')
  BY <1>2, <1>5 DEF ToDo, InChain, Founded, Publish
<1>7. Grows /\ ShownFounded'
  BY <1>2, Quiet DEF hostVars
<1>8. ProcTyped'
  BY <1>1, <1>2, <1>5 DEF ProcTyped, Sessions, Open, Activate
<1>9. group' \in [Desktops -> Group \cup {None}] /\ GroupSaved'
  <2>1. [of |-> d, epoch |-> 0] \in Group /\ None \notin Group
    BY NoneAssumption DEF Group
  <2>2. /\ group' \in [Desktops -> Group \cup {None}]
        /\ \A x \in Desktops : \/ group'[x] = group[x]
                               \/ x = d /\ group[x] = None /\ group'[x] = [of |-> d, epoch |-> 0]
    BY <1>1, <2>1 DEF Activate, Types, DiskTyped
  <2> QED BY <1>2, <2>1, <2>2, MembersAreDesktops DEF Inv, GroupSaved
<1>10. AssetFounded'
  BY <1>1, <1>2, AssetKept DEF hostVars
<1> QED BY <1>1, <1>2, <1>6, <1>7, <1>8, <1>9, <1>10, StepSound
        DEF hostVars, Types, HostTyped, DiskTyped

(***************************************************************************)
(* The owner and the group.                                                *)
(***************************************************************************)
Going == [at: {"outbox", "members"}, todo: SUBSET Members, skip: SUBSET Members, left: SUBSET Welcome]

LEMMA OnwardFacts ==
    ASSUME NEW r \in Going
    PROVE  /\ Onward(r) \in SyncRuns /\ Onward(r).at # "push"
           /\ Onward(r).at # "idle" => Onward(r).todo = r.todo
           /\ Onward(r).at = "outbox" => Onward(r).left = r.left
<1>1. CASE r.at = "outbox" /\ r.left # {}
  <2>1. Onward(r) = r
    BY <1>1 DEF Onward
  <2> QED BY <2>1 DEF Going, SyncRuns
<1>2. CASE ~(r.at = "outbox" /\ r.left # {}) /\ r.todo \subseteq r.skip
  <2>1. Onward(r) = Idle
    BY <1>2 DEF Onward
  <2> QED BY <2>1 DEF Idle, SyncRuns
<1>3. CASE ~(r.at = "outbox" /\ r.left # {}) /\ ~(r.todo \subseteq r.skip)
  <2>1. Onward(r) = [r EXCEPT !.at = "members"]
    BY <1>3 DEF Onward
  <2> QED BY <2>1 DEF Going, SyncRuns
<1> QED BY <1>1, <1>2, <1>3

\* A run that goes on, with welcomes that there are.
LEMMA SyncStep ==
    ASSUME ProcTyped, SyncFounded, joined' = joined, NEW s \in Syncs, NEW r \in Going,
           r.todo \subseteq joined, sync' = [sync EXCEPT ![s] = Onward(r)]
    PROVE  /\ sync' \in [Syncs -> SyncRuns] /\ SyncFounded'
           /\ \A v : InSync(v)' => InSync(v) \/ (r.at = "outbox" /\ v \in r.left)
<1>1. /\ Onward(r) \in SyncRuns /\ Onward(r).at # "push"
      /\ Onward(r).at # "idle" => Onward(r).todo = r.todo
      /\ Onward(r).at = "outbox" => Onward(r).left = r.left
  BY OnwardFacts
<1>2. CASE Onward(r).at = "outbox"
  <2>1. r.at = "outbox"
    BY <1>2 DEF Onward, Idle
  <2>2. /\ sync' \in [Syncs -> SyncRuns] /\ sync'[s] = Onward(r)
        /\ \A x \in Syncs : x # s => sync'[x] = sync[x]
    BY <1>1 DEF ProcTyped
  <2> QED BY <1>1, <1>2, <2>1, <2>2 DEF SyncFounded, InSync
<1>3. CASE Onward(r).at # "outbox"
  <2>2. /\ sync' \in [Syncs -> SyncRuns] /\ sync'[s] = Onward(r)
        /\ \A x \in Syncs : x # s => sync'[x] = sync[x]
    BY <1>1 DEF ProcTyped
  <2> QED BY <1>1, <1>3, <2>2 DEF SyncFounded, InSync
<1> QED BY <1>2, <1>3

LEMMA StartSyncSound ==
    ASSUME Inv, NEW s \in Syncs, StartSync(s)
    PROVE  Inv'
<1>1. /\ Types /\ ProcTyped /\ SyncFounded /\ WorkFounded /\ OneWelcome
      /\ outbox \in [Members -> Welcome \cup {None}] /\ joined \in SUBSET Members
  BY DEF Inv, Types, DiskTyped, HostTyped
<1>2. UNCHANGED <<hostVars, diskVars, session, keys, made, recent, chain, work, upload, rendered, faults>>
  BY DEF StartSync
<1>3. PICK r : /\ r = [at |-> "outbox", todo |-> joined, skip |-> {m \in Members : outbox[m] # None},
                       left |-> {outbox[m] : m \in {n \in Members : outbox[n] # None}}]
               /\ sync' = [sync EXCEPT ![s] = Onward(r)]
  BY DEF StartSync
<1>4. r \in Going /\ r.todo \subseteq joined /\ \A v \in r.left : \E n \in Members : outbox[n] = v
  BY <1>1, <1>3 DEF Going
<1>5. /\ sync' \in [Syncs -> SyncRuns] /\ SyncFounded'
      /\ \A v : InSync(v)' => InSync(v) \/ \E n \in Members : outbox[n] = v
  <2>1. /\ sync' \in [Syncs -> SyncRuns] /\ SyncFounded'
        /\ \A v : InSync(v)' => InSync(v) \/ (r.at = "outbox" /\ v \in r.left)
    BY <1>1, <1>2, <1>3, <1>4, SyncStep DEF hostVars
  <2> QED BY <1>4, <2>1
<1>6. OneWelcome'
  <2>1. \A m \in Members : \A v : ToDo(m, v)' <=> ToDo(m, v)
    BY <1>2 DEF ToDo, InWork, InChain
  <2>2. ASSUME NEW m \in Members, NEW v \in Welcome, Around(m, v)' PROVE Around(m, v)
    <3>1. CASE v.to = m /\ \E n \in Members : outbox[n] = v
      <4>1. PICK n \in Members : outbox[n] = v
        BY <3>1
      <4>2. Around(n, v)
        BY <4>1 DEF Around
      <4>3. v.to = n
        BY <1>1, <4>2 DEF OneWelcome
      <4> QED BY <3>1, <4>2, <4>3
    <3>2. CASE ~(v.to = m /\ \E n \in Members : outbox[n] = v)
      BY <1>2, <1>5, <2>1, <2>2, <3>2 DEF Around, hostVars, diskVars
    <3> QED BY <3>1, <3>2
  <2> QED BY <1>1, <1>2, <2>2, OneStep DEF diskVars
<1>7. WorkFounded'
  <2>1. Grows
    BY <1>2 DEF Grows, hostVars, diskVars
  <2>2. \A x \in Desktops : \A v : ToDo(x, v)' => ToDo(x, v)
    BY <1>2 DEF ToDo, InWork, InChain
  <2> QED BY <1>1, <2>1, <2>2, WorkStep
<1>8. Types'
  BY <1>1, <1>2, <1>5 DEF Types, HostTyped, DiskTyped, ProcTyped, hostVars, diskVars
<1> QED BY <1>2, <1>5, <1>6, <1>7, <1>8
        DEF Inv, ShownFounded, KeptFor, GroupSaved, KeysFounded, AssetFounded, AttachedIsWhole,
            WelcomeNotLost, hostVars, diskVars

\* A welcome that a run has is pushed, whether the answer comes or not.
LEMMA PushSound ==
    ASSUME Inv, NEW w \in Welcome, InSync(w), PushWelcome(w),
           UNCHANGED <<joined, packages, spool, asset, group, leaves, receipts, keys, made, recent,
                       rendered>>,
           outbox' \in [Members -> Welcome \cup {None}],
           \A m \in Members : \/ outbox'[m] = outbox[m]
                              \/ m = w.to /\ outbox'[m] = None /\ Accepted(w),
           session' \in [Desktops -> Sessions], faults' \in 0..MaxFaults,
           work' \in [Desktops -> [Slots -> Seq(Todo)]],
           \A x \in Desktops : \A r : InWork(x, r)' => InWork(x, r),
           sync' \in [Syncs -> SyncRuns], SyncFounded', \A v : InSync(v)' => InSync(v),
           upload' \in UploadRuns, AssetFounded'
    PROVE  Inv'
<1>1. /\ Types /\ ProcTyped /\ WorkFounded /\ OneWelcome /\ w.to \in Members
      /\ welcomes \in [Members -> Welcome \cup {None}] /\ chain \in [Desktops -> Seq(Seq(Todo))]
      /\ None \notin Welcome
  BY NoneAssumption DEF Inv, Types, HostTyped, ProcTyped, Welcome
<1>2. Around(w.to, w)
  BY <1>1 DEF Around
<1>3. /\ welcomes' \in [Members -> Welcome \cup {None}]
      /\ \A m \in Members : welcomes'[m] = welcomes[m] \/ (m = w.to /\ welcomes'[m] = w)
      /\ Accepted(w) => welcomes'[w.to] = w
      /\ chain' \in [Desktops -> Seq(Seq(Todo))]
      /\ \A x \in Desktops : \A r : InChain(x, r)' =>
            InChain(x, r) \/ (x = w.to /\ r \in {Consume(w), Drain})
  <2>1. CASE welcomes[w.to] = None
    <3>1. welcomes' = [welcomes EXCEPT ![w.to] = w]
      BY <2>1 DEF PushWelcome
    <3> DEFINE what == <<Consume(w), Drain>>
    <3>2. chain' = Pushed(what, {w.to})
      BY <2>1 DEF PushWelcome
    <3>3. what \in Seq(Todo) /\ \A i \in 1..Len(what) : what[i] \in {Consume(w), Drain}
      BY TodoFacts
    <3> HIDE DEF what
    <3>4. /\ chain' \in [Desktops -> Seq(Seq(Todo))]
          /\ \A x \in Desktops : \A r : InChain(x, r)' =>
                InChain(x, r) \/ (x \in {w.to} /\ \E i \in 1..Len(what) : what[i] = r)
      <4>1. PICK whom : whom = {w.to}
        OBVIOUS
      <4>2. chain' = Pushed(what, whom) /\ ProcTyped /\ what \in Seq(Todo)
        BY <1>1, <3>2, <3>3, <4>1
      <4> QED BY <4>1, <4>2, PushedFacts, ZenonT(60)
    <3>5. /\ welcomes' \in [Members -> Welcome \cup {None}] /\ welcomes'[w.to] = w
          /\ \A m \in Members : welcomes'[m] = welcomes[m] \/ (m = w.to /\ welcomes'[m] = w)
      BY <1>1, <3>1
    <3> QED BY <3>3, <3>4, <3>5
  <2>2. CASE welcomes[w.to] # None
    BY <1>1, <2>2 DEF PushWelcome, Accepted, InChain
  <2> QED BY <2>1, <2>2
<1>4. Types'
  BY <1>1, <1>3 DEF Types, HostTyped, DiskTyped, ProcTyped
<1>5. \A x \in Desktops : \A r : ToDo(x, r)' => ToDo(x, r) \/ (x = w.to /\ r \in {Consume(w), Drain})
  BY <1>3 DEF ToDo
<1>6. WorkFounded'
  <2>1. Grows
    BY DEF Grows
  <2>2. \A x \in Desktops : \A r \in Todo : ToDo(x, r)' => ToDo(x, r) \/ Founded(x, r)'
    BY <1>1, <1>5 DEF Founded, Consume, Drain
  <2> QED BY <1>1, <2>1, <2>2, WorkStep
<1>7. OneWelcome'
  <2>1. \A m \in Members : \A v \in Welcome : ToDo(m, Consume(v))' =>
            ToDo(m, Consume(v)) \/ (m = w.to /\ v = w)
    BY <1>5, MembersAreDesktops DEF Consume, Drain
  <2>2. ASSUME NEW m \in Members, NEW v \in Welcome, Around(m, v)' PROVE Around(m, v)
    <3>1. CASE m = w.to /\ v = w
      BY <1>2, <3>1
    <3>2. CASE ~(m = w.to /\ v = w)
      <4>1. welcomes'[m] = v => welcomes[m] = v
        BY <1>3, <3>2
      <4>2. outbox'[m] = v => outbox[m] = v
        BY <1>1
      <4> QED BY <2>1, <2>2, <3>2, <4>1, <4>2 DEF Around
    <3> QED BY <3>1, <3>2
  <2> QED BY <1>1, <2>2, OneStep
<1>8. WelcomeNotLost'
  <2> SUFFICES ASSUME NEW m \in leaves
               PROVE  receipts[m] # {} \/ outbox'[m] # None \/ welcomes'[m] # None
    BY DEF WelcomeNotLost
  <2>1. m \in Members /\ (receipts[m] # {} \/ outbox[m] # None \/ welcomes[m] # None)
    BY <1>1 DEF Inv, WelcomeNotLost, Types, DiskTyped, HostTyped
  <2>2. w # None
    BY <1>1
  <2> QED BY <1>3, <2>1, <2>2
<1> QED BY <1>4, <1>6, <1>7, <1>8
        DEF Inv, ShownFounded, KeptFor, GroupSaved, KeysFounded

\* The owner loses its connection with the answer.
LEMMA UnansweredSound ==
    ASSUME Inv, NEW w \in Welcome, InSync(w), NEW run \in Syncs, PushUnanswered(run, w),
           UNCHANGED <<joined, packages, spool, asset, group, leaves, receipts, keys, made, recent,
                       rendered>>
    PROVE  Inv'
<1>1. /\ Types /\ ProcTyped /\ SyncFounded /\ AssetFounded /\ upload \in UploadRuns
      /\ outbox \in [Members -> Welcome \cup {None}]
  BY DEF Inv, Types, ProcTyped, DiskTyped
<1>2. PushWelcome(w) /\ Broken(Owner) /\ UploadFails(Owner) /\ UNCHANGED outbox
  BY DEF PushUnanswered
<1>3. Ends
  BY <1>1, <1>2, MembersAreDesktops, BrokenFacts
<1>4. upload' \in UploadRuns /\ AssetFounded'
  <2>1. /\ upload' \in UploadRuns
        /\ upload'.at \in {"chunks", "complete", "send"} => upload'.at = upload.at
    BY <1>1, <1>2, MembersAreDesktops, UploadFailsFacts
  <2> QED BY <1>1, <2>1, AssetKept
<1>5. SyncFounded' /\ \A v : InSync(v)' => InSync(v)
  <2>1. \A s \in Syncs : sync'[s] = sync[s] \/ sync'[s].at = "idle"
    BY <1>3 DEF Ends, Idle
  <2>2. SyncFounded'
    BY <1>1, <2>1 DEF SyncFounded
  <2>3. ASSUME NEW v, InSync(v)' PROVE InSync(v)
    BY <2>1, <2>3 DEF InSync
  <2> QED BY <2>2, <2>3
<1>6. /\ session' \in [Desktops -> Sessions] /\ faults' \in 0..MaxFaults
      /\ work' \in [Desktops -> [Slots -> Seq(Todo)]] /\ sync' \in [Syncs -> SyncRuns]
      /\ \A x \in Desktops : \A r : InWork(x, r)' => InWork(x, r)
      /\ outbox' \in [Members -> Welcome \cup {None}]
      /\ \A m \in Members : \/ outbox'[m] = outbox[m]
                            \/ m = w.to /\ outbox'[m] = None /\ Accepted(w)
  BY <1>1, <1>2, <1>3 DEF Ends
<1>7. PushWelcome(w)
  BY <1>2
<1> QED BY <1>4, <1>5, <1>6, <1>7, PushSound

LEMMA AnsweredSound ==
    ASSUME Inv, NEW w \in Welcome, InSync(w), NEW s \in Syncs, NEW r \in Going,
           PushAnswered(s, w, Onward(r)), r.todo \subseteq joined,
           \A v : r.at = "outbox" /\ v \in r.left => InSync(v),
           UNCHANGED <<joined, packages, spool, asset, group, leaves, receipts, keys, made, recent,
                       rendered>>
    PROVE  Inv'
<1>1. /\ Types /\ ProcTyped /\ SyncFounded /\ AssetFounded /\ upload \in UploadRuns
      /\ outbox \in [Members -> Welcome \cup {None}]
  BY DEF Inv, Types, ProcTyped, DiskTyped
<1>2. /\ PushWelcome(w) /\ ForgetTaken(w) /\ sync' = [sync EXCEPT ![s] = Onward(r)]
      /\ UNCHANGED <<session, work, upload, faults>>
  BY DEF PushAnswered
<1>3. /\ outbox' \in [Members -> Welcome \cup {None}]
      /\ \A m \in Members : outbox'[m] = outbox[m] \/ (m = w.to /\ outbox'[m] = None /\ Accepted(w))
  BY <1>1, <1>2 DEF ForgetTaken
<1>4. /\ sync' \in [Syncs -> SyncRuns] /\ SyncFounded' /\ \A v : InSync(v)' => InSync(v)
  <2>1. /\ sync' \in [Syncs -> SyncRuns] /\ SyncFounded'
        /\ \A v : InSync(v)' => InSync(v) \/ (r.at = "outbox" /\ v \in r.left)
    BY <1>1, <1>2, SyncStep
  <2> QED BY <2>1
<1>5. AssetFounded'
  BY <1>1, <1>2, AssetKept
<1>6. /\ session' \in [Desktops -> Sessions] /\ faults' \in 0..MaxFaults
      /\ work' \in [Desktops -> [Slots -> Seq(Todo)]]
      /\ \A x \in Desktops : \A q : InWork(x, q)' => InWork(x, q)
  BY <1>1, <1>2 DEF ProcTyped, InWork
<1> QED BY <1>1, <1>2, <1>3, <1>4, <1>5, <1>6, PushSound

LEMMA PushOldSound ==
    ASSUME Inv, NEW s \in Syncs, PushOld(s)
    PROVE  Inv'
<1>1. /\ ProcTyped /\ SyncFounded /\ sync[s].at = "outbox" /\ sync[s] \in Going
      /\ sync[s].todo \subseteq joined
  BY DEF Inv, Types, ProcTyped, SyncRuns, Going, PushOld, SyncFounded
<1>2. UNCHANGED <<joined, packages, spool, asset, group, leaves, receipts, keys, made, recent, rendered>>
  BY DEF PushOld
<1>3. PICK w \in sync[s].left :
          \/ PushUnanswered(s, w)
          \/ PushAnswered(s, w, Onward([sync[s] EXCEPT !.left = @ \ {w},
                                           !.skip = IF Accepted(w) THEN @ \ {w.to} ELSE @]))
  BY DEF PushOld
<1>4. w \in Welcome /\ InSync(w)
  BY <1>1 DEF Going, InSync
<1>5. CASE PushUnanswered(s, w)
  BY <1>2, <1>4, <1>5, UnansweredSound
<1>6. CASE ~PushUnanswered(s, w)
  <2>1. PICK r : /\ r = [sync[s] EXCEPT !.left = @ \ {w},
                                        !.skip = IF Accepted(w) THEN @ \ {w.to} ELSE @]
                 /\ PushAnswered(s, w, Onward(r))
    BY <1>3, <1>6
  <2>2. r \in Going /\ r.at = "outbox" /\ r.todo = sync[s].todo /\ r.left \subseteq sync[s].left
    BY <1>1, <2>1 DEF Going
  <2>3. \A v : v \in r.left => InSync(v)
    BY <1>1, <2>2 DEF InSync
  <2> QED BY <1>1, <1>2, <1>4, <2>1, <2>2, <2>3, AnsweredSound
<1> QED BY <1>5, <1>6

LEMMA PushNewSound ==
    ASSUME Inv, NEW s \in Syncs, PushNew(s)
    PROVE  Inv'
<1>1. /\ ProcTyped /\ SyncFounded /\ sync[s].at = "push" /\ sync[s].of \in Welcome
      /\ sync[s].todo \in SUBSET Members /\ sync[s].skip \in SUBSET Members
      /\ sync[s].todo \subseteq joined
  BY DEF Inv, Types, ProcTyped, SyncRuns, PushNew, SyncFounded
<1>2. UNCHANGED <<joined, packages, spool, asset, group, leaves, receipts, keys, made, recent, rendered>>
  BY DEF PushNew
<1>3. PICK w : /\ w = sync[s].of
               /\ \/ PushUnanswered(s, w)
                  \/ PushAnswered(s, w, Onward([at |-> "members", todo |-> sync[s].todo,
                                                skip |-> sync[s].skip, left |-> {}]))
  BY DEF PushNew
<1>4. w \in Welcome /\ InSync(w)
  BY <1>1, <1>3 DEF InSync
<1>5. CASE PushUnanswered(s, w)
  BY <1>2, <1>4, <1>5, UnansweredSound
<1>6. CASE ~PushUnanswered(s, w)
  <2>1. PICK r : /\ r = [at |-> "members", todo |-> sync[s].todo, skip |-> sync[s].skip, left |-> {}]
                 /\ PushAnswered(s, w, Onward(r))
    BY <1>3, <1>6
  <2>2. r \in Going /\ r.at = "members" /\ r.todo \subseteq joined
    BY <1>1, <2>1 DEF Going
  <2> QED BY <1>2, <1>4, <2>1, <2>2, AnsweredSound
<1> QED BY <1>5, <1>6

\* Who is not a leaf has no welcome around: the one that is made is the only one.
LEMMA NextMemberSound ==
    ASSUME Inv, NEW s \in Syncs, NextMember(s)
    PROVE  Inv'
<1>1. /\ Types /\ ProcTyped /\ SyncFounded /\ WorkFounded /\ OneWelcome /\ GroupSaved
      /\ sync[s].at = "members" /\ sync[s] \in Going /\ sync[s].todo \subseteq joined
      /\ joined \in SUBSET Members
  BY DEF Inv, Types, ProcTyped, HostTyped, SyncRuns, Going, NextMember, SyncFounded
<1>2. UNCHANGED <<hostVars, receipts, session, keys, made, recent, chain, work, upload, rendered, faults>>
  BY DEF NextMember
<1>3. PICK m \in sync[s].todo :
          IF packages[m] = 0 \/ m \in leaves
          THEN /\ sync' = [sync EXCEPT ![s] = Onward([sync[s] EXCEPT !.todo = @ \ {m}])]
               /\ UNCHANGED <<group, leaves, outbox>>
          ELSE AddMember(s, m, [to |-> m, key |-> packages[m], epoch |-> group[Owner].epoch + 1])
  BY DEF NextMember
<1>4. m \in joined /\ m \in Members
  BY <1>1
<1>5. \A x \in Desktops : \A r : ToDo(x, r)' <=> ToDo(x, r)
  BY <1>2 DEF ToDo, InWork, InChain
<1>6. WorkFounded'
  <2>1. Grows
    BY <1>2 DEF Grows, hostVars
  <2> QED BY <1>1, <1>5, <2>1, WorkStep
<1>7. CASE packages[m] = 0 \/ m \in leaves
  <2>0. sync' = [sync EXCEPT ![s] = Onward([sync[s] EXCEPT !.todo = @ \ {m}])]
    BY <1>3, <1>7
  <2>1. PICK r : r = [sync[s] EXCEPT !.todo = @ \ {m}] /\ sync' = [sync EXCEPT ![s] = Onward(r)]
    BY <2>0
  <2>2. r \in Going /\ r.at = "members" /\ r.todo \subseteq joined
    BY <1>1, <2>1 DEF Going
  <2>3. UNCHANGED <<group, leaves, outbox>>
    BY <1>3, <1>7
  <2>4. /\ sync' \in [Syncs -> SyncRuns] /\ SyncFounded'
        /\ \A v : InSync(v)' => InSync(v)
    <3>1. /\ sync' \in [Syncs -> SyncRuns] /\ SyncFounded'
          /\ \A v : InSync(v)' => InSync(v) \/ (r.at = "outbox" /\ v \in r.left)
      BY <1>1, <1>2, <2>1, <2>2, SyncStep DEF hostVars
    <3> QED BY <2>2, <3>1
  <2>5. OneWelcome'
    <3>1. \A x \in Members : \A v \in Welcome : Around(x, v)' => Around(x, v)
      BY <1>2, <1>5, <2>3, <2>4, MembersAreDesktops DEF Around, hostVars
    <3> QED BY <1>1, <2>3, <3>1, OneStep
  <2>6. Types'
    BY <1>1, <1>2, <2>3, <2>4 DEF Types, HostTyped, DiskTyped, ProcTyped, hostVars
  <2> QED BY <1>2, <1>6, <2>3, <2>4, <2>5, <2>6
          DEF Inv, ShownFounded, KeptFor, GroupSaved, KeysFounded, AssetFounded, AttachedIsWhole,
              WelcomeNotLost, hostVars
<1>8. CASE ~(packages[m] = 0 \/ m \in leaves)
  <2>1. PICK w : /\ w = [to |-> m, key |-> packages[m], epoch |-> group[Owner].epoch + 1]
                 /\ AddMember(s, m, w)
    BY <1>3, <1>8
  <2>2. /\ leaves' = leaves \cup {m} /\ group' = [group EXCEPT ![Owner].epoch = w.epoch]
        /\ outbox' = [outbox EXCEPT ![m] = w]
        /\ sync' = [sync EXCEPT ![s] = [at |-> "push", of |-> w, todo |-> @.todo \ {m},
                                        skip |-> @.skip, left |-> {}]]
    BY <2>1 DEF AddMember
  <2>3. /\ w \in Welcome /\ w.to = m /\ w.epoch \in Nat /\ None \notin Welcome \cup Group
        /\ group[Owner] \in Group
    <3>1. group[Owner] \in Group /\ packages[m] \in Nat /\ None \notin Welcome \cup Group
      BY <1>1, <1>4, MembersAreDesktops, NoneAssumption
      DEF Types, DiskTyped, HostTyped, GroupSaved
    <3> QED BY <1>4, <2>1, <3>1 DEF Welcome, Group
  <2>4. /\ outbox' \in [Members -> Welcome \cup {None}] /\ outbox'[m] = w
        /\ \A x \in Members : x # m => outbox'[x] = outbox[x]
        /\ leaves' \in SUBSET joined
    BY <1>1, <1>4, <2>2, <2>3 DEF Types, DiskTyped
  <2>5. /\ group' \in [Desktops -> Group \cup {None}] /\ group'[Owner] \in Group
        /\ group'[Owner].of = group[Owner].of
        /\ \A x \in Desktops : x # Owner => group'[x] = group[x]
    <3>1. [group[Owner] EXCEPT !.epoch = w.epoch] \in Group
      BY <2>3 DEF Group
    <3> QED BY <1>1, <2>2, <2>3, <3>1, MembersAreDesktops DEF Types, DiskTyped, Group
  <2>6. /\ sync' \in [Syncs -> SyncRuns] /\ SyncFounded'
        /\ \A v : InSync(v)' => InSync(v) \/ v = w
    <3>1. PICK r : /\ r = [at |-> "push", of |-> w, todo |-> sync[s].todo \ {m},
                           skip |-> sync[s].skip, left |-> {}]
                   /\ sync' = [sync EXCEPT ![s] = r]
      BY <2>2
    <3>2. r \in SyncRuns /\ r.at = "push" /\ r.of = w /\ r.todo \subseteq joined
      BY <1>1, <2>3, <3>1 DEF SyncRuns, Going
    <3>3. /\ sync' \in [Syncs -> SyncRuns] /\ sync'[s] = r
          /\ \A x \in Syncs : x # s => sync'[x] = sync[x]
      BY <1>1, <3>1, <3>2 DEF ProcTyped
    <3> QED BY <1>1, <1>2, <3>2, <3>3 DEF SyncFounded, InSync, hostVars
  <2>7. OneWelcome'
    <3>1. \A v \in Welcome : ~Around(m, v)
      BY <1>4, <1>8, <1>1 DEF OneWelcome
    <3>2. ASSUME NEW x \in Members, NEW v \in Welcome, Around(x, v)'
          PROVE  Around(x, v) \/ (x = m /\ v = w)
      <4>1. CASE x = m /\ v = w
        BY <4>1
      <4>2. CASE ~(x = m /\ v = w)
        <5>1. outbox'[x] = v => outbox[x] = v
          BY <2>4, <4>2
        <5>2. InSync(v)' /\ v.to = x => InSync(v)
          BY <2>3, <2>6, <4>2
        <5> QED BY <1>2, <1>5, <3>2, <5>1, <5>2, MembersAreDesktops DEF Around, hostVars
      <4> QED BY <4>1, <4>2
    <3> SUFFICES ASSUME NEW x \in Members, NEW v \in Welcome, Around(x, v)',
                        NEW u \in Welcome, Around(x, u)'
                 PROVE  v.to = x /\ x \in leaves' /\ u = v
      <4>1. ASSUME NEW x \in Members, NEW v \in Welcome, Around(x, v)',
                   \A u \in Welcome : Around(x, u)' => v.to = x /\ x \in leaves' /\ u = v
            PROVE  v.to = x /\ x \in leaves' /\ \A u \in Welcome : Around(x, u)' => u = v
        BY <4>1
      <4> QED BY <4>1 DEF OneWelcome
    <3>3. CASE x = m
      BY <2>2, <2>3, <3>1, <3>2, <3>3
    <3>4. CASE x # m
      <4>1. Around(x, v) /\ Around(x, u)
        BY <3>2, <3>4
      <4> QED BY <1>1, <2>2, <4>1 DEF OneWelcome
    <3> QED BY <3>3, <3>4
  <2>8. Types'
    BY <1>1, <1>2, <2>4, <2>5, <2>6 DEF Types, HostTyped, DiskTyped, ProcTyped, hostVars
  <2>9. GroupSaved' /\ WelcomeNotLost'
    <3>1. GroupSaved'
      BY <1>1, <1>2, <2>3, <2>5, MembersAreDesktops DEF GroupSaved
    <3>2. \A x \in leaves' : receipts'[x] # {} \/ outbox'[x] # None \/ welcomes'[x] # None
      <4>1. \A x \in leaves : x \in Members /\ (receipts[x] # {} \/ outbox[x] # None \/ welcomes[x] # None)
        BY <1>1 DEF Inv, WelcomeNotLost, Types, DiskTyped
      <4> QED BY <1>2, <2>2, <2>3, <2>4, <4>1 DEF hostVars
    <3> QED BY <3>1, <3>2 DEF WelcomeNotLost
  <2> QED BY <1>2, <1>6, <2>6, <2>7, <2>8, <2>9
          DEF Inv, ShownFounded, KeptFor, KeysFounded, AssetFounded, AttachedIsWhole, hostVars
<1> QED BY <1>7, <1>8

(***************************************************************************)
(* Sending.                                                                *)
(***************************************************************************)
\* A message that the host takes goes to who is there, and to nobody else.
LEMMA SpooledFacts ==
    ASSUME Inv, NEW d \in Desktops, NEW t \in Messages, spool[t] = None, group[d] # None,
           NEW whom, whom \subseteq joined \cup {Owner}, spool' = Spooled(d, t),
           chain' = Pushed(<<Deliver(t)>>, whom), UNCHANGED <<joined, receipts, recent, rendered>>,
           \A x \in Desktops : \A r : InWork(x, r)' => InWork(x, r)
    PROVE  /\ spool' \in [Messages -> Row \cup {None}] /\ chain' \in [Desktops -> Seq(Seq(Todo))]
           /\ \A y \in Messages : y # t => spool'[y] = spool[y]
           /\ Grows /\ ShownFounded'
           /\ \A x \in Desktops : \A r \in Todo : ToDo(x, r)' =>
                 ToDo(x, r) \/ (r.do # "consume" /\ Founded(x, r)')
<1>1. /\ ProcTyped /\ spool \in [Messages -> Row \cup {None}] /\ joined \in SUBSET Members
      /\ group[d] \in Group /\ None \notin Row
  BY NoneAssumption DEF Inv, Types, HostTyped, DiskTyped
<1>2. PICK row : /\ row = [sender |-> d, group |-> group[d], to |-> joined \cup {Owner}, consumed |-> {}]
                 /\ spool' = [spool EXCEPT ![t] = row]
  BY DEF Spooled
<1>3. row \in Row /\ row.to = joined \cup {Owner} /\ row.consumed = {}
  BY <1>1, <1>2, MembersAreDesktops DEF Row
<1>4. /\ spool' \in [Messages -> Row \cup {None}] /\ spool'[t] = row
      /\ \A y \in Messages : y # t => spool'[y] = spool[y]
  BY <1>1, <1>2, <1>3
<1>5. Grows
  BY <1>1, <1>4 DEF Grows
<1>6. ShownFounded'
  <2>1. \A x \in Desktops : t \notin rendered[x] /\ rendered[x] \subseteq Messages
    BY <1>1 DEF Inv, ShownFounded, KeptFor, ProcTyped
  <2>2. \A x \in Desktops : \A y \in rendered[x] : KeptFor(x, y)' /\ spool'[y].sender # x
    BY <1>4, <2>1 DEF Inv, ShownFounded, KeptFor
  <2>3. \A y \in Messages : spool'[y] \in Row => \A x \in spool'[y].consumed : y \in rendered[x]
    BY <1>3, <1>4 DEF Inv, ShownFounded
  <2> QED BY <2>2, <2>3 DEF Inv, ShownFounded
<1> DEFINE what == <<Deliver(t)>>
<1>7. chain' = Pushed(what, whom) /\ what \in Seq(Todo) /\ \A i \in 1..Len(what) : what[i] = Deliver(t)
  BY TodoFacts
<1> HIDE DEF what
<1>8. /\ chain' \in [Desktops -> Seq(Seq(Todo))]
      /\ \A x \in Desktops : \A r : InChain(x, r)' =>
            InChain(x, r) \/ (x \in whom /\ \E i \in 1..Len(what) : what[i] = r)
  BY <1>1, <1>7, PushedFacts
<1>9. ASSUME NEW x \in Desktops, NEW r \in Todo, ToDo(x, r)'
      PROVE  ToDo(x, r) \/ (r.do # "consume" /\ Founded(x, r)')
  <2>1. CASE x \in whom /\ r = Deliver(t)
    <3>1. KeptFor(x, t)'
      BY <1>3, <1>4, <2>1 DEF KeptFor
    <3>2. r.do = "deliver" /\ r.of = t
      BY <2>1 DEF Deliver
    <3> QED BY <3>1, <3>2 DEF Founded
  <2>2. CASE ~(x \in whom /\ r = Deliver(t))
    BY <1>7, <1>8, <1>9, <2>2 DEF ToDo
  <2> QED BY <2>1, <2>2
<1> QED BY <1>4, <1>5, <1>6, <1>8, <1>9

LEMMA SendSound ==
    ASSUME Inv, NEW d \in Desktops, NEW t \in Messages, Send(d, t)
    PROVE  Inv'
<1>1. /\ Types /\ ProcTyped /\ AssetFounded
      /\ spool[t] = None /\ group[d] # None /\ t \notin Attached
      /\ spool' = Spooled(d, t) /\ chain' = Pushed(<<Deliver(t)>>, (joined \cup {Owner}) \ {d})
  BY DEF Inv, Types, Send
<1>2. UNCHANGED <<joined, packages, welcomes, asset, diskVars, session, keys, made, recent, work, sync,
                  upload, rendered, faults>>
  BY DEF Send
<1>3. PICK whom : whom = (joined \cup {Owner}) \ {d} /\ whom \subseteq joined \cup {Owner}
  OBVIOUS
<1>4. \A x \in Desktops : \A r : InWork(x, r)' => InWork(x, r)
  BY <1>2 DEF InWork
<1>5. /\ spool' \in [Messages -> Row \cup {None}] /\ chain' \in [Desktops -> Seq(Seq(Todo))]
      /\ \A y \in Messages : y # t => spool'[y] = spool[y]
      /\ Grows /\ ShownFounded'
      /\ \A x \in Desktops : \A r \in Todo : ToDo(x, r)' =>
            ToDo(x, r) \/ (r.do # "consume" /\ Founded(x, r)')
  <2>1. chain' = Pushed(<<Deliver(t)>>, whom)
    BY <1>1, <1>3
  <2> QED BY <1>1, <1>2, <1>3, <1>4, <2>1, SpooledFacts DEF diskVars
<1>6. AssetFounded'
  BY <1>1, <1>2, <1>5, DeliveryAssumption DEF AssetFounded, AttachedIsWhole
<1>7. ProcTyped' /\ GroupSaved'
  BY <1>1, <1>2, <1>5 DEF ProcTyped, Inv, GroupSaved, diskVars
<1> QED BY <1>1, <1>2, <1>5, <1>6, <1>7, StepSound DEF diskVars, Types, HostTyped, DiskTyped

(***************************************************************************)
(* The upload.                                                             *)
(***************************************************************************)
LEMMA AnswerFacts ==
    ASSUME ProcTyped, NEW next \in UploadRuns, Answer(next)
    PROVE  /\ Ends /\ upload' \in UploadRuns
           /\ upload' = next \/ upload'.at \notin {"chunks", "complete", "send"}
<1>1. CASE upload' = next /\ UNCHANGED <<session, work, sync, faults>>
  BY <1>1, NothingEnds
<1>2. CASE Broken(Owner) /\ upload' = Failed(upload)
  <2>1. upload \in UploadRuns
    BY DEF ProcTyped
  <2>2. Ends
    BY <1>2, MembersAreDesktops, BrokenFacts
  <2> QED BY <1>2, <2>1, <2>2, FailedFacts
<1> QED BY <1>1, <1>2 DEF Answer

LEMMA UploadStep ==
    ASSUME Inv, UploadUnchanged, UNCHANGED <<spool, chain>>, Ends,
           asset' \in Asset \cup {None}, upload' \in UploadRuns, AssetFounded'
    PROVE  Inv'
<1>1. Types /\ ProcTyped
  BY DEF Inv, Types
<1>2. UNCHANGED <<joined, packages, welcomes, diskVars, keys, made, recent, rendered>>
  BY DEF UploadUnchanged
<1>3. Grows /\ ShownFounded'
  BY <1>2, Quiet DEF diskVars
<1>4. ProcTyped'
  BY <1>1, <1>2 DEF ProcTyped, Ends
<1>5. \A x \in Desktops : \A r : ToDo(x, r)' => ToDo(x, r)
  BY DEF ToDo, InChain, Ends
<1>6. GroupSaved' /\ \A s \in Syncs : sync'[s] \in {sync[s], Idle}
  BY <1>2 DEF Inv, GroupSaved, diskVars, Ends
<1> QED BY <1>1, <1>2, <1>3, <1>4, <1>5, <1>6, StepSound DEF diskVars, Types, HostTyped, DiskTyped

LEMMA UploadAlone ==
    ASSUME Inv, UNCHANGED <<hostVars, diskVars, session, keys, made, recent, chain, work, sync,
                            rendered, faults>>,
           upload' \in UploadRuns, upload'.at \notin {"chunks", "complete", "send"}
    PROVE  Inv'
<1>1. ProcTyped /\ AssetFounded /\ asset \in Asset \cup {None}
  BY DEF Inv, Types, HostTyped
<1>2. Ends
  BY <1>1, NothingEnds
<1>3. AssetFounded'
  BY <1>1, AssetKept DEF hostVars
<1> QED BY <1>1, <1>2, <1>3, UploadStep DEF hostVars, UploadUnchanged

LEMMA SendingFacts ==
    ASSUME NEW u \in UploadRuns
    PROVE  Sending(u) \in UploadRuns /\ Sending(u).at \in {"complete", "chunks"}
BY DEF Sending, UploadRuns

LEMMA BeginUploadSound ==
    ASSUME Inv, BeginUpload
    PROVE  Inv'
<1>1. /\ ProcTyped /\ AssetFounded /\ asset \in Asset \cup {None} /\ upload \in UploadRuns
      /\ None \notin Asset
  BY NoneAssumption DEF Inv, Types, HostTyped, ProcTyped
<1>2. /\ asset' \in Asset /\ asset' # None
      /\ asset # None => asset' = asset
      /\ asset = None => asset'.completed = FALSE
  <2>1. CASE asset = None
    <3>1. asset' = [chunks |-> {}, completed |-> FALSE, linked |-> FALSE]
      BY <2>1 DEF BeginUpload
    <3>2. asset' \in Asset /\ asset'.completed = FALSE
      BY <3>1 DEF Asset
    <3> QED BY <1>1, <2>1, <3>2
  <2>2. CASE asset # None
    BY <1>1, <2>2 DEF BeginUpload
  <2> QED BY <2>1, <2>2
<1>3. PICK u : u = [upload EXCEPT !.left = Chunks \ asset'.chunks] /\ Answer(Sending(u))
  BY DEF BeginUpload
<1>4. u \in UploadRuns
  BY <1>1, <1>3 DEF UploadRuns
<1>5. Sending(u) \in UploadRuns /\ Sending(u).at # "send"
  BY <1>4, SendingFacts
<1>6. /\ Ends /\ upload' \in UploadRuns /\ upload'.at # "send"
  BY <1>1, <1>3, <1>5, AnswerFacts
<1>7. UploadUnchanged /\ UNCHANGED <<spool, chain>>
  BY DEF BeginUpload
<1>8. AssetFounded'
  <2>1. CASE asset # None
    BY <1>1, <1>2, <1>6, <1>7, <2>1 DEF AssetFounded, AttachedIsWhole
  <2>2. CASE asset = None
    BY <1>1, <1>2, <1>6, <1>7, <2>2 DEF AssetFounded, AttachedIsWhole
  <2> QED BY <2>1, <2>2
<1> QED BY <1>2, <1>6, <1>7, <1>8, UploadStep

LEMMA UploadChunkSound ==
    ASSUME Inv, UploadChunk
    PROVE  Inv'
<1>1. /\ ProcTyped /\ AssetFounded /\ asset \in Asset /\ upload \in UploadRuns
      /\ None \notin Asset /\ UNCHANGED spool
  BY NoneAssumption DEF Inv, Types, HostTyped, ProcTyped, AssetFounded, UploadChunk
<1>2. PICK c \in upload.left : /\ asset' = [asset EXCEPT !.chunks = @ \cup {c}]
                               /\ Answer(Sending([upload EXCEPT !.left = @ \ {c}]))
  BY DEF UploadChunk
<1>3. /\ asset' \in Asset /\ asset'.chunks = asset.chunks \cup {c} /\ c \in Chunks
      /\ asset'.completed = asset.completed /\ asset'.linked = asset.linked
  BY <1>1, <1>2 DEF Asset, UploadRuns
<1>4. PICK u : u = [upload EXCEPT !.left = @ \ {c}] /\ Answer(Sending(u))
  BY <1>2
<1>5. u \in UploadRuns
  BY <1>1, <1>4 DEF UploadRuns
<1>6. Sending(u) \in UploadRuns /\ Sending(u).at # "send"
  BY <1>5, SendingFacts
<1>7. /\ Ends /\ upload' \in UploadRuns /\ upload'.at # "send"
  BY <1>1, <1>4, <1>6, AnswerFacts
<1>8. AssetFounded'
  BY <1>1, <1>3, <1>7 DEF AssetFounded, AttachedIsWhole, Asset
<1> QED BY <1>3, <1>7, <1>8, UploadStep DEF UploadChunk

LEMMA CompleteUploadSound ==
    ASSUME Inv, CompleteUpload
    PROVE  Inv'
<1>1. /\ ProcTyped /\ AssetFounded /\ asset \in Asset /\ upload \in UploadRuns
      /\ None \notin Asset /\ UNCHANGED spool
  BY NoneAssumption DEF Inv, Types, HostTyped, ProcTyped, AssetFounded, CompleteUpload
<1>2. CASE asset.chunks = Chunks
  <2>1. asset' = [asset EXCEPT !.completed = TRUE] /\ Answer([upload EXCEPT !.at = "send"])
    BY <1>2 DEF CompleteUpload
  <2>2. /\ asset' \in Asset /\ asset'.chunks = Chunks /\ asset'.completed /\ asset'.linked = asset.linked
    BY <1>1, <1>2, <2>1 DEF Asset
  <2>3. PICK u : u = [upload EXCEPT !.at = "send"] /\ Answer(u)
    BY <2>1
  <2>4. u \in UploadRuns
    BY <1>1, <2>3 DEF UploadRuns
  <2>5. Ends /\ upload' \in UploadRuns
    BY <1>1, <2>3, <2>4, AnswerFacts
  <2>6. AssetFounded'
    BY <1>1, <2>2 DEF AssetFounded, AttachedIsWhole
  <2> QED BY <2>2, <2>5, <2>6, UploadStep DEF CompleteUpload
<1>3. CASE asset.chunks # Chunks
  <2>1. asset' = asset /\ Answer([upload EXCEPT !.at = "abort"])
    BY <1>3 DEF CompleteUpload
  <2>3. PICK u : u = [upload EXCEPT !.at = "abort"] /\ Answer(u)
    BY <2>1
  <2>4. u \in UploadRuns /\ u.at = "abort"
    BY <1>1, <2>3 DEF UploadRuns
  <2>5. Ends /\ upload' \in UploadRuns /\ upload'.at \notin {"chunks", "complete", "send"}
    BY <1>1, <2>3, <2>4, AnswerFacts
  <2>6. AssetFounded'
    BY <1>1, <2>1, <2>5 DEF AssetFounded, AttachedIsWhole
  <2> QED BY <1>1, <2>1, <2>5, <2>6, UploadStep DEF CompleteUpload
<1> QED BY <1>2, <1>3

\* The message refers to an attachment that is complete, and links it.
LEMMA SendAttachedSound ==
    ASSUME Inv, SendAttached
    PROVE  Inv'
<1>1. /\ Types /\ ProcTyped /\ AssetFounded /\ asset \in Asset /\ asset.completed
      /\ upload \in UploadRuns /\ None \notin Asset
  BY NoneAssumption DEF Inv, Types, HostTyped, ProcTyped, AssetFounded, SendAttached
<1>2. PICK t \in Attached : spool[t] = None /\ spool' = Spooled(Owner, t)
                            /\ chain' = Pushed(<<Deliver(t)>>, joined)
  BY DEF SendAttached
<1>3. UNCHANGED <<joined, packages, welcomes, diskVars, keys, made, recent, rendered>>
  BY DEF SendAttached, UploadUnchanged
<1>4. PICK u : u = [upload EXCEPT !.at = "sent"] /\ Answer(u)
  BY DEF SendAttached
<1>5. u \in UploadRuns /\ u.at = "sent"
  BY <1>1, <1>4 DEF UploadRuns
<1>6. Ends /\ upload' \in UploadRuns /\ upload'.at \notin {"chunks", "complete", "send"}
  BY <1>1, <1>4, <1>5, AnswerFacts
<1>7. /\ spool' \in [Messages -> Row \cup {None}] /\ chain' \in [Desktops -> Seq(Seq(Todo))]
      /\ \A y \in Messages : y # t => spool'[y] = spool[y]
      /\ Grows /\ ShownFounded'
      /\ \A x \in Desktops : \A r \in Todo : ToDo(x, r)' =>
            ToDo(x, r) \/ (r.do # "consume" /\ Founded(x, r)')
  <2>1. t \in Messages /\ Owner \in Desktops /\ group[Owner] # None /\ joined \subseteq joined \cup {Owner}
    BY DeliveryAssumption, MembersAreDesktops DEF Inv, GroupSaved
  <2>2. \A x \in Desktops : \A r : InWork(x, r)' => InWork(x, r)
    BY <1>6 DEF Ends
  <2> QED BY <1>2, <1>3, <2>1, <2>2, SpooledFacts DEF diskVars
<1>8. asset' \in Asset /\ AssetFounded'
  <2>1. /\ asset' \in Asset /\ asset'.linked /\ asset'.completed /\ asset'.chunks = asset.chunks
    BY <1>1 DEF SendAttached, Asset
  <2> QED BY <1>1, <1>6, <2>1 DEF AssetFounded, AttachedIsWhole
<1>9. ProcTyped' /\ GroupSaved' /\ \A s \in Syncs : sync'[s] \in {sync[s], Idle}
  BY <1>1, <1>3, <1>6, <1>7 DEF ProcTyped, Inv, GroupSaved, diskVars, Ends
<1> QED BY <1>1, <1>3, <1>7, <1>8, <1>9, StepSound DEF diskVars, Types, HostTyped, DiskTyped

LEMMA AbortUploadSound ==
    ASSUME Inv, AbortUpload
    PROVE  Inv'
<1>1. /\ ProcTyped /\ AssetFounded /\ asset \in Asset \cup {None} /\ upload \in UploadRuns
  BY DEF Inv, Types, HostTyped, ProcTyped
<1>2. PICK u : u = [upload EXCEPT !.at = "aborted"] /\ Answer(u)
  BY DEF AbortUpload
<1>3. u \in UploadRuns /\ u.at = "aborted"
  BY <1>1, <1>2 DEF UploadRuns
<1>4. Ends /\ upload' \in UploadRuns /\ upload'.at \notin {"chunks", "complete", "send"}
  BY <1>1, <1>2, <1>3, AnswerFacts
<1>5. asset' \in Asset \cup {None} /\ AssetFounded'
  BY <1>1, <1>4 DEF AssetFounded, AttachedIsWhole, AbortUpload
<1> QED BY <1>4, <1>5, UploadStep DEF AbortUpload

LEMMA UploadSound ==
    ASSUME Inv, UploadNext
    PROVE  Inv'
<1>1. upload \in UploadRuns /\ MaxAttempts \in Nat /\ MaxAttempts > 0
  BY DeliveryAssumption DEF Inv, Types, ProcTyped
<1>2. CASE StartUpload
  <2>1. upload' = [at |-> "begin", attempt |-> 1, left |-> {}]
    BY <1>2 DEF StartUpload
  <2>2. upload' \in UploadRuns /\ upload'.at = "begin"
    BY <1>1, <2>1 DEF UploadRuns
  <2> QED BY <1>2, <2>2, UploadAlone DEF StartUpload
<1>3. CASE RefuseUpload
  BY <1>1, <1>3, FailedFacts, UploadAlone DEF RefuseUpload
<1> QED BY <1>2, <1>3, BeginUploadSound, UploadChunkSound, CompleteUploadSound, SendAttachedSound,
           AbortUploadSound DEF UploadNext

(***************************************************************************)
(* The invariant.                                                          *)
(***************************************************************************)
LEMMA InitInv == Init => Inv
<1> SUFFICES ASSUME Init PROVE Inv
  OBVIOUS
<1>1. <<>> \in Seq(Todo) /\ <<>> \in Seq(Seq(Todo)) /\ Len(<<>>) = 0 /\ None \notin Welcome \cup Group
      /\ None \notin Row
  BY EmptySeq, NoneAssumption
<1>2. \A d \in Desktops : \A r : ~ToDo(d, r)
  BY <1>1 DEF Init, ToDo, InWork, InChain
<1>3. HostTyped
  BY DEF Init, HostTyped
<1>4. DiskTyped
  BY DEF Init, DiskTyped, Group
<1>5. ProcTyped
  <2>1. MaxKeys \in Nat /\ MaxAttempts \in Nat /\ MaxFaults \in Nat
    BY DeliveryAssumption
  <2>2. sync \in [Syncs -> SyncRuns] /\ upload \in UploadRuns
    BY <2>1 DEF Init, SyncRuns, Idle, UploadRuns, NoUpload
  <2>3. session \in [Desktops -> Sessions] /\ recent \in [Desktops -> SUBSET Messages]
        /\ rendered \in [Desktops -> SUBSET Messages] /\ keys \in [Members -> SUBSET Nat]
    BY DEF Init, Sessions, Open
  <2>4. made \in [Members -> 0..MaxKeys] /\ faults \in 0..MaxFaults
    BY <2>1 DEF Init
  <2>5. chain \in [Desktops -> Seq(Seq(Todo))] /\ work \in [Desktops -> [Slots -> Seq(Todo)]]
    BY <1>1 DEF Init
  <2> QED BY <2>2, <2>3, <2>4, <2>5 DEF ProcTyped
<1>6. WorkFounded /\ ShownFounded
  BY <1>1, <1>2 DEF Init, WorkFounded, ShownFounded
<1>7. OneWelcome
  <2>1. \A w : ~InSync(w)
    BY DEF Init, InSync, Idle
  <2>2. \A m \in Members : \A w \in Welcome : ~Around(m, w)
    BY <1>1, <1>2, <2>1, MembersAreDesktops DEF Init, Around
  <2> QED BY <2>2 DEF OneWelcome
<1>8. GroupSaved
  BY <1>1, MembersAreDesktops DEF Init, GroupSaved, Group
<1>9. SyncFounded /\ KeysFounded /\ AssetFounded /\ WelcomeNotLost
  BY DeliveryAssumption
  DEF Init, SyncFounded, Idle, KeysFounded, AssetFounded, AttachedIsWhole, NoUpload, WelcomeNotLost
<1> QED BY <1>3, <1>4, <1>5, <1>6, <1>7, <1>8, <1>9 DEF Inv, Types

LEMMA RequestSound ==
    ASSUME Inv, NEW d \in Desktops, NEW s \in Slots, Request(d, s)
    PROVE  Inv'
BY PublishSound, PendingSound, ConsumeSound, AckWelcomeSound, DrainSound, HandleSound, DownloadSound,
   AckSound DEF Request

LEMMA NextInv == Inv /\ [Next]_vars => Inv'
<1> SUFFICES ASSUME Inv, [Next]_vars PROVE Inv'
  OBVIOUS
<1>1. CASE \E d \in Desktops : Lose(d) \/ Close(d) \/ Reconnect(d) \/ Restart(d) \/ Activate(d) \/ Runs(d)
  BY <1>1, LoseSound, CloseSound, ReconnectSound, RestartSound, ActivateSound, TakeNextSound,
     RequestSound DEF Runs
<1>2. CASE \E m \in Members : Join(m)
  BY <1>2, JoinSound
<1>3. CASE \E d \in Desktops, t \in Messages : Send(d, t)
  BY <1>3, SendSound
<1>4. CASE \E s \in Syncs : SyncNext(s)
  BY <1>4, StartSyncSound, PushOldSound, NextMemberSound, PushNewSound DEF SyncNext
<1>5. CASE UploadNext
  BY <1>5, UploadSound
<1>6. CASE UNCHANGED vars
  <2>1. UNCHANGED <<joined, packages, welcomes, leaves, outbox, receipts, made, group, spool, asset,
                    session, keys, recent, chain, work, sync, upload, rendered, faults>>
    BY <1>6 DEF vars, hostVars, diskVars, procVars
  <2>2. Grows /\ ShownFounded'
    BY <2>1, Quiet
  <2>3. Types' /\ GroupSaved' /\ AssetFounded'
    BY <2>1 DEF Inv, Types, HostTyped, DiskTyped, ProcTyped, GroupSaved, AssetFounded, AttachedIsWhole
  <2>4. \A d \in Desktops : \A r : ToDo(d, r)' => ToDo(d, r)
    BY <2>1 DEF ToDo, InWork, InChain
  <2> QED BY <2>1, <2>2, <2>3, <2>4, StepSound DEF Types, HostTyped, DiskTyped
<1> QED BY <1>1, <1>2, <1>3, <1>4, <1>5, <1>6 DEF Next

\* Every step of a desktop or of the host keeps the invariant.
THEOREM InvHolds == Spec => []Inv
BY InitInv, NextInv, PTL DEF Spec

(***************************************************************************)
(* What follows.                                                           *)
(***************************************************************************)
\* A member that the owner has added to the group has its welcome, or it is kept for it: by the
\* owner, by the host, or with its receipt; and what the host and the desktops keep is well
\* formed.
THEOREM WelcomesStay == Spec => []WelcomesAreKept
<1>1. Inv => WelcomesAreKept
  <2> SUFFICES ASSUME Inv PROVE TypeOK
    BY DEF Inv, WelcomesAreKept
  <2>1. joined \subseteq Members /\ leaves \subseteq joined
    BY DEF Inv, Types, HostTyped, DiskTyped
  <2>2. ASSUME NEW m \in Members
        PROVE  /\ packages[m] \in 0..made[m] /\ made[m] \in 0..MaxKeys /\ keys[m] \subseteq 1..made[m]
               /\ ({welcomes[m], outbox[m]} \ {None}) \cup receipts[m] \subseteq Welcome
               /\ (welcomes[m] # None \/ outbox[m] # None) => m \in leaves
    <3>1. packages[m] \in 0..made[m] /\ made[m] \in 0..MaxKeys /\ keys[m] \subseteq 1..made[m]
      BY DEF Inv, KeysFounded, Types, ProcTyped
    <3>2. welcomes[m] \in Welcome \cup {None} /\ outbox[m] \in Welcome \cup {None}
          /\ receipts[m] \in SUBSET Welcome
      BY DEF Inv, Types, HostTyped, DiskTyped
    <3>3. \A w \in Welcome : welcomes[m] = w \/ outbox[m] = w => m \in leaves
      BY DEF Inv, OneWelcome, Around
    <3> QED BY <3>1, <3>2, <3>3
  <2>3. ASSUME NEW d \in Desktops
        PROVE  /\ session[d] \in Sessions /\ recent[d] \subseteq rendered[d]
               /\ group[d] # None => group[d].of \in {Owner, d}
    BY DEF Inv, Types, ProcTyped, ShownFounded, GroupSaved
  <2>4. ASSUME NEW t \in Messages, spool[t] # None
        PROVE  spool[t].consumed \subseteq spool[t].to \ {spool[t].sender}
    <3>1. spool[t] \in Row /\ spool[t].consumed \subseteq Desktops
      BY <2>4 DEF Inv, Types, HostTyped, Row
    <3> QED BY <3>1 DEF Inv, ShownFounded, KeptFor
  <2>5. asset # None => (asset.completed => asset.chunks = Chunks)
    BY DEF Inv, AssetFounded
  <2>6. upload.attempt \in 0..MaxAttempts /\ faults \in 0..MaxFaults
    BY DEF Inv, Types, ProcTyped, UploadRuns
  <2> QED BY <2>1, <2>2, <2>3, <2>4, <2>5, <2>6 DEF TypeOK
<1> QED BY <1>1, InvHolds, PTL

\* What a member has consumed, and the host may purge for it, it has shown; and the attachment of
\* a message that the host has is whole there.
THEOREM MessagesStay == Spec => []MessagesAreKept
<1>1. Inv => MessagesAreKept
  <2> SUFFICES ASSUME Inv PROVE OnlyRenderedIsConsumed
    BY DEF Inv, AssetFounded, MessagesAreKept
  <2>1. \A t \in Messages : spool[t] # None => spool[t] \in Row
    BY DEF Inv, Types, HostTyped
  <2> QED BY <2>1 DEF Inv, ShownFounded, OnlyRenderedIsConsumed
<1> QED BY <1>1, InvHolds, PTL

\* A welcome that a member consumes again is the one whose receipt it has.
LEMMA ConsumedAgain ==
    ASSUME Inv, NEW d \in Desktops, NEW s \in Slots, ConsumeWelcome(d, s),
           NEW m \in Members, receipts[m] # {}
    PROVE  group'[m] = group[m] /\ receipts'[m] = receipts[m]
<1>1. PICK w : w = Head(work[d][s]).of
  OBVIOUS
<1>2. d \in Members /\ w \in Welcome /\ Around(d, w) /\ OneWelcome /\ Types
  <2>1. /\ Head(work[d][s]) \in Todo /\ Head(work[d][s]).do = "consume"
        /\ Founded(d, Head(work[d][s])) /\ ToDo(d, Head(work[d][s]))
    BY DoingFacts DEF Inv, ConsumeWelcome
  <2>2. w \in Welcome /\ Head(work[d][s]) = Consume(w)
    BY <1>1, <2>1, TodoFacts DEF Consume
  <2> QED BY <2>1, <2>2 DEF Around, Founded, Inv
<1>3. CASE m = d
  <2>1. PICK v \in receipts[d] : TRUE
    BY <1>3
  <2>2. v \in Welcome /\ Around(d, v)
    BY <1>2, <2>1 DEF Types, DiskTyped, Around
  <2>3. w \in receipts[d]
    BY <1>2, <2>1, <2>2 DEF OneWelcome
  <2> QED BY <1>1, <1>3, <2>3 DEF ConsumeWelcome
<1>4. CASE m # d
  <2>1. group' = group \/ group' = [group EXCEPT ![d] = [of |-> Owner, epoch |-> w.epoch]]
    BY <1>1 DEF ConsumeWelcome
  <2>2. receipts' = receipts \/ receipts' = [receipts EXCEPT ![d] = @ \cup {w}]
    BY <1>1 DEF ConsumeWelcome
  <2> QED BY <1>2, <1>4, <2>1, <2>2, MembersAreDesktops DEF Types, DiskTyped
<1> QED BY <1>3, <1>4

\* The owner's group is not a member's.
LEMMA OthersGroup ==
    ASSUME Inv, NEW s \in Syncs, NextMember(s), NEW m \in Members
    PROVE  group'[m] = group[m] /\ receipts'[m] = receipts[m]
<1>1. group \in [Desktops -> Group \cup {None}]
  BY DEF Inv, Types, DiskTyped
<1>2. group' = group \/ \E w : group' = [group EXCEPT ![Owner].epoch = w.epoch]
  BY DEF NextMember, AddMember
<1> QED BY <1>1, <1>2, MembersAreDesktops DEF NextMember

\* A member comes into the group of the owner once: whatever is pushed, asked for or delivered
\* again, its group and its receipts stay what they became with the first welcome.
THEOREM WelcomesCountOnce == Spec => ConsumedOnce
<1>1. ASSUME Inv, [Next]_vars, NEW m \in Members, receipts[m] # {}
      PROVE  group'[m] = group[m] /\ receipts'[m] = receipts[m]
  <2>0. m \in Desktops /\ m # Owner
    BY MembersAreDesktops
  <2>1. CASE \E d \in Desktops : Lose(d) \/ Close(d) \/ Reconnect(d) \/ Restart(d)
    BY <2>1 DEF Lose, Close, Reconnect, Restart, diskVars
  <2>2. ASSUME NEW d \in Desktops, Activate(d) PROVE group'[m] = group[m] /\ receipts'[m] = receipts[m]
    <3>1. group[m] # None /\ group \in [Desktops -> Group \cup {None}]
      BY <1>1 DEF Inv, GroupSaved, Types, DiskTyped
    <3> QED BY <2>0, <2>2, <3>1 DEF Activate
  <2>3. ASSUME NEW d \in Desktops, Runs(d) PROVE group'[m] = group[m] /\ receipts'[m] = receipts[m]
    <3>1. CASE TakeNext(d)
      BY <3>1 DEF TakeNext, diskVars
    <3>2. CASE \E s \in Slots : Request(d, s)
      <4>1. PICK s \in Slots : Request(d, s)
        BY <3>2
      <4>2. CASE ConsumeWelcome(d, s)
        BY <1>1, <4>2, ConsumedAgain
      <4>3. CASE ~ConsumeWelcome(d, s)
        BY <4>1, <4>3 DEF Request, PublishKey, Pending, AcknowledgeWelcome, DrainPending,
           HandleDelivered, DownloadAttachment, AckConsumed, diskVars
      <4> QED BY <4>2, <4>3
    <3> QED BY <2>3, <3>1, <3>2 DEF Runs
  <2>4. CASE \E n \in Members : Join(n)
    BY <2>4 DEF Join, diskVars
  <2>5. CASE \E d \in Desktops, t \in Messages : Send(d, t)
    BY <2>5 DEF Send, diskVars
  <2>6. ASSUME NEW s \in Syncs, SyncNext(s) PROVE group'[m] = group[m] /\ receipts'[m] = receipts[m]
    <3>1. CASE NextMember(s)
      BY <1>1, <3>1, OthersGroup
    <3>2. CASE ~NextMember(s)
      BY <2>6, <3>2 DEF SyncNext, StartSync, PushOld, PushNew, diskVars
    <3> QED BY <3>1, <3>2
  <2>7. CASE UploadNext
    BY <2>7 DEF UploadNext, StartUpload, BeginUpload, RefuseUpload, UploadChunk, CompleteUpload,
       SendAttached, AbortUpload, UploadUnchanged, diskVars
  <2>8. CASE UNCHANGED vars
    BY <2>8 DEF vars, diskVars
  <2> QED BY <1>1, <2>1, <2>2, <2>3, <2>4, <2>5, <2>6, <2>7, <2>8 DEF Next
<1>2. Inv /\ [Next]_vars =>
          [\A m \in Members : receipts[m] # {} => group'[m] = group[m] /\ receipts'[m] = receipts[m]]_vars
  BY <1>1
<1> QED BY <1>2, InvHolds, PTL DEF Spec, ConsumedOnce
===============================================================================
