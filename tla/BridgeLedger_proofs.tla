-------------------------- MODULE BridgeLedger_proofs --------------------------
(***************************************************************************)
(* Proofs about BridgeLedger, for any hosts, tokens, bounds and budgets of *)
(* crashes and failed appends.  The file of a bridge is in step with its   *)
(* memory, one line ahead of it (that line's fsync threw), or no longer    *)
(* readable (a line was appended after that one); the chain of hashes it   *)
(* stands for rebuilds the memory (Rebuilds), and so does the checkpoint   *)
(* of a compaction (CheckpointRebuilds).  Whatever a bridge remembers was  *)
(* signed by the authority of the host (SignedLedger), and every event it  *)
(* appends follows from what was signed and what it remembers (Legit).     *)
(***************************************************************************)
EXTENDS BridgeLedger, FunctionTheorems, SequenceTheorems, FiniteSetTheorems,
        WellFoundedInduction, TLAPS

(***************************************************************************)
(* The two folds of the model, unrolled.                                   *)
(***************************************************************************)
LEMMA WrittenIs ==
    ASSUME NEW es, NEW short,
           NEW f, f = [lines |-> log, chain |-> head, ledger |-> ledger],
           NEW g, g = Record(f, es[1], IF 1 = short THEN "torn" ELSE "whole"),
           NEW k, k = Record(g, es[2], IF 2 = short THEN "torn" ELSE "whole")
    PROVE  /\ Written(es, 0, short) = f
           /\ Written(es, 1, short) = g
           /\ Written(es, 2, short) = k
<1> DEFINE Step(i, p) == IF i = 0 THEN f
                         ELSE Record(p, es[i], IF i = short THEN "torn" ELSE "whole")
           Run(n) == CHOOSE r : r = [i \in 0..n |-> Step(i, r[i - 1])]
           Value(i) == IF i = 0 THEN f ELSE IF i = 1 THEN g ELSE k
<1>1. \A n : Written(es, n, short) = Run(n)[n]
  BY DEF Written
<1>2. Step(0, 0) = f /\ \A p : Step(0, p) = f
  OBVIOUS
<1>3. Step(1, f) = g /\ Step(2, g) = k
  OBVIOUS
<1> HIDE DEF Step
<1>4. ASSUME NEW n \in 0..2 PROVE Run(n)[n] = Value(n)
  <2> DEFINE w == [i \in 0..n |-> Value(i)]
  <2>1. w = [i \in 0..n |-> Step(i, w[i - 1])]
    BY <1>2, <1>3
  <2> HIDE DEF w
  <2>2. Run(n) = [i \in 0..n |-> Step(i, Run(n)[i - 1])]
    BY <2>1
  <2> HIDE DEF Run
  <2>3. Run(n)[0] = f
    BY <2>2, <1>2
  <2>4. n >= 1 => Run(n)[1] = g
    BY <2>2, <2>3, <1>3
  <2>5. n = 2 => Run(n)[2] = k
    BY <2>2, <2>4, <1>3
  <2> QED BY <2>3, <2>4, <2>5
<1> HIDE DEF Run
<1>5. Run(0)[0] = f /\ Run(1)[1] = g /\ Run(2)[2] = k
  BY <1>4
<1> QED BY <1>1, <1>5

Start == [ok |-> TRUE, ledger |-> EmptyLedger, head |-> <<>>]

\* r[i] is what the replay of the first i of the lines gives.
IsReplay(r, lines) ==
    r = [i \in 0..Len(lines) |->
            IF i = 0 THEN Start ELSE ReplayLine(r[i - 1], lines[i])]

LEMMA ReplayIs ==
    ASSUME NEW lines, NEW r, Len(Recovered(lines)) \in Nat, IsReplay(r, Recovered(lines))
    PROVE  Replay(lines) = r[Len(Recovered(lines))]
<1> DEFINE kept == Recovered(lines)
           n == Len(kept)
           Step(i, p) == IF i = 0 THEN Start ELSE ReplayLine(p, kept[i])
           run == CHOOSE p : p = [i \in 0..n |-> Step(i, p[i - 1])]
<1>1. Replay(lines) = run[n]
  BY DEF Replay, Start
<1>2. r = [i \in 0..n |-> Step(i, r[i - 1])]
  BY DEF IsReplay
<1>3. \A p : Step(0, p) = Start
  OBVIOUS
<1> HIDE DEF Step
<1>4. run = [i \in 0..n |-> Step(i, run[i - 1])]
  BY <1>2
<1> HIDE DEF run
<1>5. \A i \in 0..n : run[i] = r[i]
  <2> DEFINE bad == {i \in 0..n : run[i] # r[i]}
  <2> SUFFICES ASSUME bad # {} PROVE FALSE
    OBVIOUS
  <2>1. PICK i \in bad : \A j \in bad : ~(j < i)
    <3>1. bad \subseteq Nat
      OBVIOUS
    <3>2. \E i \in bad : \A j \in bad : <<j, i>> \notin OpToRel(<, Nat)
      BY <3>1, WFMin, NatLessThanWellFounded
    <3> QED BY <3>1, <3>2 DEF OpToRel
  <2>2. CASE i = 0
    BY <2>1, <2>2, <1>2, <1>3, <1>4
  <2>3. CASE i # 0
    <3>1. i - 1 \in 0..n /\ i - 1 < i
      BY <2>1, <2>3
    <3>2. run[i - 1] = r[i - 1]
      BY <2>1, <3>1
    <3>3. run[i] = Step(i, run[i - 1]) /\ r[i] = Step(i, r[i - 1])
      BY <2>1, <1>2, <1>4
    <3> QED BY <2>1, <3>2, <3>3
  <2> QED BY <2>2, <2>3
<1> QED BY <1>1, <1>5

-----------------------------------------------------------------------------
(***************************************************************************)
(* Ledgers and events.                                                     *)
(***************************************************************************)
Event ==
    [type: {"highWater"}, host: Hosts, mark: Mark]
    \cup [type: {"revocation"}, host: Hosts, grant: Generations, generation: Generations]
    \cup [type: {"promotionVote"}, host: Hosts]
    \cup [type: {"hostAccess"}, host: Hosts, grant: Generations]
    \cup [type: {"pairingConsumed"}, token: Tokens, host: Hosts]

LEMMA EventsAre ==
    /\ \A h \in Hosts, m \in Mark : HighWater(h, m) \in Event
    /\ \A h \in Hosts, g, r \in Generations : Revocation(h, g, r) \in Event
    /\ \A h \in Hosts : Vote(h) \in Event
    /\ \A h \in Hosts, g \in Generations : Access(h, g) \in Event
    /\ \A t \in Tokens, h \in Hosts : Pairing(t, h) \in Event
BY DEF Event, HighWater, Revocation, Vote, Access, Pairing

LEMMA EventIs ==
    ASSUME NEW e \in Event
    PROVE  \/ \E h \in Hosts, m \in Mark : e = HighWater(h, m)
           \/ \E h \in Hosts, g, r \in Generations : e = Revocation(h, g, r)
           \/ \E h \in Hosts : e = Vote(h)
           \/ \E h \in Hosts, g \in Generations : e = Access(h, g)
           \/ \E t \in Tokens, h \in Hosts : e = Pairing(t, h)
<1>1. CASE e \in [type: {"highWater"}, host: Hosts, mark: Mark]
  BY <1>1 DEF HighWater
<1>2. CASE e \in [type: {"revocation"}, host: Hosts, grant: Generations, generation: Generations]
  BY <1>2 DEF Revocation
<1>3. CASE e \in [type: {"promotionVote"}, host: Hosts]
  BY <1>3 DEF Vote
<1>4. CASE e \in [type: {"hostAccess"}, host: Hosts, grant: Generations]
  BY <1>4 DEF Access
<1>5. CASE e \in [type: {"pairingConsumed"}, token: Tokens, host: Hosts]
  BY <1>5 DEF Pairing
<1> QED BY <1>1, <1>2, <1>3, <1>4, <1>5 DEF Event

Cells(m, r, v, a, c) == [marks |-> m, revoked |-> r, vote |-> v, access |-> a, consumed |-> c]

LEMMA LedgerIs ==
    ASSUME NEW l \in Ledger
    PROVE  /\ l = Cells(l.marks, l.revoked, l.vote, l.access, l.consumed)
           /\ l.marks \in [Hosts -> Mark \cup {NoMark}]
           /\ l.revoked \in [Hosts -> [Generations -> 0..MaxGeneration]]
           /\ l.vote \in Hosts \cup {Nobody}
           /\ l.access \in [Hosts -> 0..MaxGeneration]
           /\ l.consumed \in [Tokens -> Hosts \cup {Nobody}]
BY DEF Ledger, Cells

LEMMA LedgerOf ==
    ASSUME NEW m \in [Hosts -> Mark \cup {NoMark}],
           NEW r \in [Hosts -> [Generations -> 0..MaxGeneration]],
           NEW v \in Hosts \cup {Nobody},
           NEW a \in [Hosts -> 0..MaxGeneration],
           NEW c \in [Tokens -> Hosts \cup {Nobody}]
    PROVE  /\ Cells(m, r, v, a, c) \in Ledger
           /\ Cells(m, r, v, a, c).marks = m /\ Cells(m, r, v, a, c).revoked = r
           /\ Cells(m, r, v, a, c).vote = v /\ Cells(m, r, v, a, c).access = a
           /\ Cells(m, r, v, a, c).consumed = c
BY DEF Ledger, Cells

LEMMA Bounds == MaxGeneration \in Nat \ {0} /\ MaxSeq \in Nat /\ CompactAt \in Nat
BY LedgerAssumption

Floored(m, g, r) ==
    IF m.grant = g /\ m.generation < r THEN [m EXCEPT !.generation = r] ELSE m

LEMMA FlooredIs ==
    ASSUME NEW m \in Mark \cup {NoMark}, NEW g \in Generations, NEW r \in Generations
    PROVE  /\ Floored(m, g, r) \in Mark \cup {NoMark}
           /\ Floored(m, g, r).seq = m.seq /\ Floored(m, g, r).grant = m.grant
           /\ Floored(m, g, r).generation = IF m.grant = g /\ m.generation < r THEN r
                                            ELSE m.generation
           /\ m = NoMark => Floored(m, g, r) = NoMark
           /\ m # NoMark => Floored(m, g, r) # NoMark
<1>1. CASE m = NoMark
  BY <1>1, Bounds DEF Floored, NoMark, Generations
<1>2. CASE m \in Mark
  <2>1. /\ [m EXCEPT !.generation = r] \in Mark
        /\ [m EXCEPT !.generation = r].seq = m.seq
        /\ [m EXCEPT !.generation = r].grant = m.grant
        /\ [m EXCEPT !.generation = r].generation = r
    BY <1>2 DEF Mark
  <2>2. NoMark \notin Mark
    BY Bounds DEF NoMark, Mark
  <2> QED BY <1>2, <2>1, <2>2 DEF Floored
<1> QED BY <1>1, <1>2

LEMMA ApplyIs ==
    ASSUME NEW l \in Ledger
    PROVE  /\ \A h \in Hosts, m \in Mark :
                Apply(l, HighWater(h, m))
                    = Cells([l.marks EXCEPT ![h] = m], l.revoked, l.vote, l.access, l.consumed)
           /\ \A h \in Hosts, g, r \in Generations :
                Apply(l, Revocation(h, g, r))
                    = Cells([l.marks EXCEPT ![h] = Floored(@, g, r)],
                            [l.revoked EXCEPT ![h] = [@ EXCEPT ![g] = r]],
                            l.vote, l.access, l.consumed)
           /\ \A h \in Hosts :
                Apply(l, Vote(h)) = Cells(l.marks, l.revoked, h, l.access, l.consumed)
           /\ \A h \in Hosts, g \in Generations :
                Apply(l, Access(h, g))
                    = Cells(l.marks, l.revoked, l.vote, [l.access EXCEPT ![h] = g], l.consumed)
           /\ \A t \in Tokens, h \in Hosts :
                Apply(l, Pairing(t, h))
                    = Cells(l.marks, l.revoked, l.vote, l.access, [l.consumed EXCEPT ![t] = h])
<1>1. l = Cells(l.marks, l.revoked, l.vote, l.access, l.consumed)
  BY LedgerIs
<1>2. ASSUME NEW h \in Hosts, NEW m \in Mark
      PROVE  Apply(l, HighWater(h, m))
                 = Cells([l.marks EXCEPT ![h] = m], l.revoked, l.vote, l.access, l.consumed)
  BY <1>1 DEF Apply, HighWater, Cells
<1>3. ASSUME NEW h \in Hosts, NEW g \in Generations, NEW r \in Generations
      PROVE  Apply(l, Revocation(h, g, r))
                    = Cells([l.marks EXCEPT ![h] = Floored(@, g, r)],
                            [l.revoked EXCEPT ![h] = [@ EXCEPT ![g] = r]],
                            l.vote, l.access, l.consumed)
  BY <1>1 DEF Apply, Revocation, ApplyRevocation, Cells, Floored
<1>4. ASSUME NEW h \in Hosts
      PROVE  Apply(l, Vote(h)) = Cells(l.marks, l.revoked, h, l.access, l.consumed)
  BY <1>1 DEF Apply, Vote, Cells
<1>5. ASSUME NEW h \in Hosts, NEW g \in Generations
      PROVE  Apply(l, Access(h, g))
                    = Cells(l.marks, l.revoked, l.vote, [l.access EXCEPT ![h] = g], l.consumed)
  BY <1>1 DEF Apply, Access, Cells
<1>6. ASSUME NEW t \in Tokens, NEW h \in Hosts
      PROVE  Apply(l, Pairing(t, h))
                    = Cells(l.marks, l.revoked, l.vote, l.access, [l.consumed EXCEPT ![t] = h])
  BY <1>1 DEF Apply, Pairing, Cells
<1> QED BY <1>2, <1>3, <1>4, <1>5, <1>6

LEMMA ApplyType ==
    ASSUME NEW l \in Ledger, NEW e \in Event
    PROVE  Apply(l, e) \in Ledger
<1>0. /\ l.marks \in [Hosts -> Mark \cup {NoMark}]
      /\ l.revoked \in [Hosts -> [Generations -> 0..MaxGeneration]]
      /\ l.vote \in Hosts \cup {Nobody}
      /\ l.access \in [Hosts -> 0..MaxGeneration]
      /\ l.consumed \in [Tokens -> Hosts \cup {Nobody}]
  BY LedgerIs
<1>1. ASSUME NEW h \in Hosts, NEW m \in Mark, e = HighWater(h, m) PROVE Apply(l, e) \in Ledger
  <2>1. [l.marks EXCEPT ![h] = m] \in [Hosts -> Mark \cup {NoMark}]
    BY <1>0
  <2>2. Cells([l.marks EXCEPT ![h] = m], l.revoked, l.vote, l.access, l.consumed) \in Ledger
    BY <1>0, <2>1, LedgerOf
  <2> QED BY <1>1, <2>2, ApplyIs
<1>2. ASSUME NEW h \in Hosts, NEW g \in Generations, NEW r \in Generations,
             e = Revocation(h, g, r)
      PROVE  Apply(l, e) \in Ledger
  <2>1. [l.marks EXCEPT ![h] = Floored(@, g, r)] \in [Hosts -> Mark \cup {NoMark}]
    BY LedgerIs, FlooredIs, ZenonT(60)
  <2>2. r \in 0..MaxGeneration
    BY Bounds DEF Generations
  <2>3. [l.revoked[h] EXCEPT ![g] = r] \in [Generations -> 0..MaxGeneration]
    BY LedgerIs, <2>2
  <2>4. [l.revoked EXCEPT ![h] = [@ EXCEPT ![g] = r]] \in [Hosts -> [Generations -> 0..MaxGeneration]]
    BY LedgerIs, <2>3
  <2>5. Cells([l.marks EXCEPT ![h] = Floored(@, g, r)],
              [l.revoked EXCEPT ![h] = [@ EXCEPT ![g] = r]],
              l.vote, l.access, l.consumed) \in Ledger
    BY <1>0, <2>1, <2>4, LedgerOf
  <2> QED BY <1>2, <2>5, ApplyIs
<1>3. ASSUME NEW h \in Hosts, e = Vote(h) PROVE Apply(l, e) \in Ledger
  <2>1. Cells(l.marks, l.revoked, h, l.access, l.consumed) \in Ledger
    BY <1>0, LedgerOf
  <2> QED BY <1>3, <2>1, ApplyIs
<1>4. ASSUME NEW h \in Hosts, NEW g \in Generations, e = Access(h, g) PROVE Apply(l, e) \in Ledger
  <2>1. [l.access EXCEPT ![h] = g] \in [Hosts -> 0..MaxGeneration]
    BY LedgerIs, Bounds DEF Generations
  <2>2. Cells(l.marks, l.revoked, l.vote, [l.access EXCEPT ![h] = g], l.consumed) \in Ledger
    BY <1>0, <2>1, LedgerOf
  <2> QED BY <1>4, <2>2, ApplyIs
<1>5. ASSUME NEW t \in Tokens, NEW h \in Hosts, e = Pairing(t, h) PROVE Apply(l, e) \in Ledger
  <2> DEFINE c == [l.consumed EXCEPT ![t] = h]
  <2>1. c \in [Tokens -> Hosts \cup {Nobody}]
    BY LedgerIs
  <2>2. Apply(l, e) = Cells(l.marks, l.revoked, l.vote, l.access, c)
    BY <1>5, ApplyIs
  <2> HIDE DEF c
  <2> QED BY <1>0, <2>1, <2>2 DEF Cells, Ledger
<1> QED BY <1>1, <1>2, <1>3, <1>4, <1>5, EventIs

-----------------------------------------------------------------------------
(***************************************************************************)
(* Files whose lines are all whole, and what their replay gives.           *)
(***************************************************************************)
Whole == [prev: Seq(Event), event: Event, status: {"whole"}]

LEMMA LineIs ==
    ASSUME NEW es \in Seq(Event), NEW e \in Event
    PROVE  /\ Line(es, e, "whole") \in Whole
           /\ Line(es, e, "whole").prev = es /\ Line(es, e, "whole").event = e
           /\ Line(es, e, "whole").status = "whole"
           /\ Line(es, e, "torn").status = "torn"
BY DEF Line, Whole

LEMMA FileOfIs ==
    ASSUME NEW es \in Seq(Event)
    PROVE  /\ FileOf(es) \in Seq(Whole) /\ Len(FileOf(es)) = Len(es)
           /\ \A i \in 1..Len(es) : FileOf(es)[i] = Line(SubSeq(es, 1, i - 1), es[i], "whole")
<1>1. Len(es) \in Nat /\ \A i \in 1..Len(es) : es[i] \in Event
  BY LenProperties, ElementOfSeq
<1>2. ASSUME NEW i \in 1..Len(es) PROVE Line(SubSeq(es, 1, i - 1), es[i], "whole") \in Whole
  <2>1. SubSeq(es, 1, i - 1) \in Seq(Event)
    BY <1>1, SubSeqProperties
  <2> QED BY <1>1, <2>1, LineIs
<1>3. FileOf(es) \in [1..Len(es) -> Whole]
  BY <1>2 DEF FileOf
<1>4. FileOf(es) \in Seq(Whole)
  BY <1>1, <1>3, SeqDef
<1>5. Len(FileOf(es)) = Len(es)
  BY <1>1, <1>3, <1>4, LenProperties
<1> QED BY <1>4, <1>5 DEF FileOf

LEMMA FileOfAppend ==
    ASSUME NEW es \in Seq(Event), NEW e \in Event
    PROVE  FileOf(Append(es, e)) = Append(FileOf(es), Line(es, e, "whole"))
<1> DEFINE n == Len(es)
           fs == Append(es, e)
           line == Line(es, e, "whole")
<1>1. n \in Nat /\ fs \in Seq(Event) /\ Len(fs) = n + 1
      /\ (\A i \in 1..n : fs[i] = es[i]) /\ fs[n + 1] = e
  BY AppendProperties, LenProperties
<1>2. line \in Whole
  BY LineIs
<1> HIDE DEF line
<1>3. /\ FileOf(es) \in Seq(Whole) /\ Len(FileOf(es)) = n
      /\ FileOf(fs) \in Seq(Whole) /\ Len(FileOf(fs)) = n + 1
  BY <1>1, FileOfIs
<1>4. /\ Append(FileOf(es), line) \in Seq(Whole) /\ Len(Append(FileOf(es), line)) = n + 1
      /\ \A i \in 1..n : Append(FileOf(es), line)[i] = FileOf(es)[i]
      /\ Append(FileOf(es), line)[n + 1] = line
  BY <1>2, <1>3, AppendProperties
<1>5. ASSUME NEW i \in 1..(n + 1) PROVE FileOf(fs)[i] = Append(FileOf(es), line)[i]
  <2>1. FileOf(fs)[i] = Line(SubSeq(fs, 1, i - 1), fs[i], "whole")
    BY <1>1, FileOfIs
  <2>2. SubSeq(fs, 1, i - 1) = SubSeq(es, 1, i - 1)
    <3>1. \A j \in 1..(i - 1) : fs[j] \in Event /\ es[j] \in Event /\ fs[j] = es[j]
      BY <1>1, ElementOfSeq
    <3>2. SubSeq(fs, 1, i - 1) \in Seq(Event) /\ SubSeq(es, 1, i - 1) \in Seq(Event)
          /\ Len(SubSeq(fs, 1, i - 1)) = Len(SubSeq(es, 1, i - 1))
          /\ Len(SubSeq(fs, 1, i - 1)) = i - 1
          /\ \A j \in 1..(i - 1) : SubSeq(fs, 1, i - 1)[j] = fs[j] /\ SubSeq(es, 1, i - 1)[j] = es[j]
      BY <1>1, <3>1, SubSeqProperties
    <3> QED BY <3>1, <3>2, SeqEqual
  <2>3. CASE i <= n
    <3>1. i \in 1..Len(es)
      BY <1>1, <2>3
    <3>2. FileOf(es)[i] = Line(SubSeq(es, 1, i - 1), es[i], "whole")
      BY <3>1, FileOfIs
    <3>3. Append(FileOf(es), line)[i] = FileOf(es)[i] /\ fs[i] = es[i]
      BY <1>1, <1>4, <3>1
    <3> QED BY <2>1, <2>2, <3>2, <3>3
  <2>4. CASE i = n + 1
    <3>1. SubSeq(es, 1, n) = es
      BY SubSeqFull
    <3>2. i - 1 = n
      BY <1>1, <2>4
    <3>3. FileOf(fs)[i] = line
      BY <1>1, <2>1, <2>2, <2>4, <3>1, <3>2 DEF line
    <3> QED BY <1>4, <2>4, <3>3
  <2>5. i <= n \/ i = n + 1
    BY <1>1
  <2> QED BY <2>3, <2>4, <2>5
<1>6. FileOf(fs) = Append(FileOf(es), line)
  BY <1>1, <1>3, <1>4, <1>5, SeqEqual
<1> QED BY <1>6 DEF line

\* Nothing of such a file is dropped, and a line is appended to it as it is.
LEMMA WholeFile ==
    ASSUME NEW lines \in Seq(Whole)
    PROVE  /\ Recovered(lines) = lines
           /\ \A x : AppendLine(lines, x) = Append(lines, x)
<1>1. lines # <<>> => Last(lines) \in Whole
  BY LenProperties, EmptySeq, ElementOfSeq DEF Last
<1>2. lines # <<>> => Last(lines).status # "torn"
  BY <1>1 DEF Whole
<1> QED BY <1>2 DEF Recovered, AppendLine

LEMMA TornIsDropped ==
    ASSUME NEW lines \in Seq(Whole), NEW es \in Seq(Event), NEW e \in Event
    PROVE  Recovered(Append(lines, Line(es, e, "torn"))) = lines
<1> DEFINE line == Line(es, e, "torn")
           S == Whole \cup {line}
           all == Append(lines, line)
<1>1. lines \in Seq(S)
  BY SeqMonotonic
<1>2. line.status = "torn"
  BY LineIs
<1> HIDE DEF line
<1>3. /\ all \in Seq(S) /\ all # <<>> /\ Len(all) = Len(lines) + 1
      /\ (\A i \in 1..Len(lines) : all[i] = lines[i]) /\ all[Len(lines) + 1] = line
  BY <1>1, AppendProperties
<1>4. Len(lines) \in Nat
  BY LenProperties
<1>5. Last(all) = line /\ Front(all) = SubSeq(all, 1, Len(lines))
  BY <1>3, <1>4 DEF Last, Front
<1>6. SubSeq(all, 1, Len(lines)) = lines
  <2>1. \A i \in 1..Len(lines) : all[i] \in S
    BY <1>1, <1>3, ElementOfSeq
  <2>2. SubSeq(all, 1, Len(lines)) \in Seq(S) /\ Len(SubSeq(all, 1, Len(lines))) = Len(lines)
        /\ \A i \in 1..Len(lines) : SubSeq(all, 1, Len(lines))[i] = lines[i]
    BY <1>3, <1>4, <2>1, SubSeqProperties
  <2> QED BY <1>1, <2>2, SeqEqual
<1>7. Recovered(all) = lines
  BY <1>2, <1>3, <1>5, <1>6 DEF Recovered
<1> QED BY <1>7 DEF line

\* The replay of the lines ends in s.
Replays(lines, s) == \E r : IsReplay(r, lines) /\ s = r[Len(lines)]

LEMMA ReplaysGives ==
    ASSUME NEW lines, NEW kept \in Seq(Whole), Recovered(lines) = kept, NEW s, Replays(kept, s)
    PROVE  Replay(lines) = s
BY ReplayIs, LenProperties DEF Replays

LEMMA ReplaysNothing == Replays(<<>>, Start)
<1> DEFINE r == [i \in 0..0 |-> Start]
<1>1. Len(<<>>) = 0
  BY EmptySeq
<1>2. IsReplay(r, <<>>)
  BY <1>1 DEF IsReplay
<1> QED BY <1>1, <1>2 DEF Replays

LEMMA ReplaysAppend ==
    ASSUME NEW lines \in Seq(Whole), NEW x \in Whole, NEW s, Replays(lines, s)
    PROVE  Replays(Append(lines, x), ReplayLine(s, x))
<1> DEFINE n == Len(lines)
           all == Append(lines, x)
<1>1. PICK r : IsReplay(r, lines) /\ s = r[n]
  BY DEF Replays
<1>2. /\ n \in Nat /\ Len(all) = n + 1
      /\ \A i \in 1..n : all[i] = lines[i]
      /\ all[n + 1] = x
  BY LenProperties, AppendProperties
<1> HIDE DEF n, all
<1> DEFINE q == [i \in 0..(n + 1) |-> IF i <= n THEN r[i] ELSE ReplayLine(s, x)]
<1>3. r = [i \in 0..n |-> IF i = 0 THEN Start ELSE ReplayLine(r[i - 1], lines[i])]
  BY <1>1 DEF IsReplay, n
<1>4. ASSUME NEW i \in 0..(n + 1)
      PROVE  q[i] = IF i = 0 THEN Start ELSE ReplayLine(q[i - 1], all[i])
  <2>1. CASE i = 0
    BY <1>2, <1>3, <2>1
  <2>2. CASE i \in 1..n
    <3>1. i \in 0..n /\ i - 1 \in 0..(n + 1) /\ i - 1 <= n /\ i <= n /\ i # 0
      BY <1>2, <2>2
    <3>2. q[i] = r[i] /\ q[i - 1] = r[i - 1]
      BY <3>1
    <3>3. r[i] = ReplayLine(r[i - 1], lines[i])
      BY <1>3, <3>1
    <3> QED BY <1>2, <2>2, <3>1, <3>2, <3>3
  <2>3. CASE i = n + 1
    <3>1. q[i] = ReplayLine(s, x) /\ q[i - 1] = r[n] /\ i # 0
      BY <1>2, <2>3
    <3> QED BY <1>1, <1>2, <2>3, <3>1 DEF n
  <2> QED BY <1>2, <2>1, <2>2, <2>3
<1>5. IsReplay(q, all)
  <2>1. q = [i \in 0..(n + 1) |-> IF i = 0 THEN Start ELSE ReplayLine(q[i - 1], all[i])]
    BY <1>4
  <2> QED BY <1>2, <2>1 DEF IsReplay
<1>6. q[n + 1] = ReplayLine(s, x)
  BY <1>2
<1> QED BY <1>2, <1>5, <1>6 DEF Replays, all

-----------------------------------------------------------------------------
(***************************************************************************)
(* Files that rebuild a ledger, and files that the bridge refuses.         *)
(***************************************************************************)
Agrees(l, m) ==
    l.marks = m.marks /\ l.revoked = m.revoked /\ l.vote = m.vote /\ l.consumed = m.consumed

\* m is l, but for credentials that have expired in l.
Recalls(m, l) ==
    Agrees(m, l) /\ \A h \in Hosts : l.access[h] # 0 => m.access[h] = l.access[h]

LEMMA CellsAre ==
    \A m, r, v, a, c :
        /\ Cells(m, r, v, a, c).marks = m /\ Cells(m, r, v, a, c).revoked = r
        /\ Cells(m, r, v, a, c).vote = v /\ Cells(m, r, v, a, c).access = a
        /\ Cells(m, r, v, a, c).consumed = c
BY DEF Cells

LEMMA MarkApplied ==
    ASSUME NEW l \in Ledger, NEW h \in Hosts, NEW m \in Mark
    PROVE  /\ Apply(l, HighWater(h, m)).marks = [l.marks EXCEPT ![h] = m]
           /\ Apply(l, HighWater(h, m)).revoked = l.revoked
           /\ Apply(l, HighWater(h, m)).vote = l.vote
           /\ Apply(l, HighWater(h, m)).access = l.access
           /\ Apply(l, HighWater(h, m)).consumed = l.consumed
BY CellsAre, ApplyIs

LEMMA RevocationApplied ==
    ASSUME NEW l \in Ledger, NEW h \in Hosts, NEW g \in Generations, NEW r \in Generations
    PROVE  /\ Apply(l, Revocation(h, g, r)).marks = [l.marks EXCEPT ![h] = Floored(@, g, r)]
           /\ Apply(l, Revocation(h, g, r)).revoked = [l.revoked EXCEPT ![h] = [@ EXCEPT ![g] = r]]
           /\ Apply(l, Revocation(h, g, r)).vote = l.vote
           /\ Apply(l, Revocation(h, g, r)).access = l.access
           /\ Apply(l, Revocation(h, g, r)).consumed = l.consumed
BY CellsAre, ApplyIs

LEMMA VoteApplied ==
    ASSUME NEW l \in Ledger, NEW h \in Hosts
    PROVE  /\ Apply(l, Vote(h)).marks = l.marks
           /\ Apply(l, Vote(h)).revoked = l.revoked
           /\ Apply(l, Vote(h)).vote = h
           /\ Apply(l, Vote(h)).access = l.access
           /\ Apply(l, Vote(h)).consumed = l.consumed
BY CellsAre, ApplyIs

LEMMA AccessApplied ==
    ASSUME NEW l \in Ledger, NEW h \in Hosts, NEW g \in Generations
    PROVE  /\ Apply(l, Access(h, g)).marks = l.marks
           /\ Apply(l, Access(h, g)).revoked = l.revoked
           /\ Apply(l, Access(h, g)).vote = l.vote
           /\ Apply(l, Access(h, g)).access = [l.access EXCEPT ![h] = g]
           /\ Apply(l, Access(h, g)).consumed = l.consumed
BY CellsAre, ApplyIs

LEMMA PairingApplied ==
    ASSUME NEW l \in Ledger, NEW t \in Tokens, NEW h \in Hosts
    PROVE  /\ Apply(l, Pairing(t, h)).marks = l.marks
           /\ Apply(l, Pairing(t, h)).revoked = l.revoked
           /\ Apply(l, Pairing(t, h)).vote = l.vote
           /\ Apply(l, Pairing(t, h)).access = l.access
           /\ Apply(l, Pairing(t, h)).consumed = [l.consumed EXCEPT ![t] = h]
BY CellsAre, ApplyIs

LEMMA RecallsApply ==
    ASSUME NEW m \in Ledger, NEW l \in Ledger, NEW e \in Event, Recalls(m, l)
    PROVE  Recalls(Apply(m, e), Apply(l, e))
<1>0. /\ m.marks = l.marks /\ m.revoked = l.revoked /\ m.vote = l.vote
      /\ m.consumed = l.consumed /\ \A h \in Hosts : l.access[h] # 0 => m.access[h] = l.access[h]
  BY DEF Recalls, Agrees
<1>1. ASSUME NEW h \in Hosts, NEW x \in Mark,
             e = HighWater(h, x)
      PROVE  Recalls(Apply(m, e), Apply(l, e))
  <2>1. /\ Apply(m, e).marks = [m.marks EXCEPT ![h] = x]
        /\ Apply(m, e).revoked = m.revoked
        /\ Apply(m, e).vote = m.vote
        /\ Apply(m, e).access = m.access
        /\ Apply(m, e).consumed = m.consumed
    BY <1>1, MarkApplied
  <2>2. /\ Apply(l, e).marks = [l.marks EXCEPT ![h] = x]
        /\ Apply(l, e).revoked = l.revoked
        /\ Apply(l, e).vote = l.vote
        /\ Apply(l, e).access = l.access
        /\ Apply(l, e).consumed = l.consumed
    BY <1>1, MarkApplied
  <2> QED BY <1>0, <2>1, <2>2 DEF Recalls, Agrees
<1>2. ASSUME NEW h \in Hosts, NEW g \in Generations, NEW r \in Generations,
             e = Revocation(h, g, r)
      PROVE  Recalls(Apply(m, e), Apply(l, e))
  <2>1. /\ Apply(m, e).marks = [m.marks EXCEPT ![h] = Floored(@, g, r)]
        /\ Apply(m, e).revoked = [m.revoked EXCEPT ![h] = [@ EXCEPT ![g] = r]]
        /\ Apply(m, e).vote = m.vote
        /\ Apply(m, e).access = m.access
        /\ Apply(m, e).consumed = m.consumed
    BY <1>2, RevocationApplied
  <2>2. /\ Apply(l, e).marks = [l.marks EXCEPT ![h] = Floored(@, g, r)]
        /\ Apply(l, e).revoked = [l.revoked EXCEPT ![h] = [@ EXCEPT ![g] = r]]
        /\ Apply(l, e).vote = l.vote
        /\ Apply(l, e).access = l.access
        /\ Apply(l, e).consumed = l.consumed
    BY <1>2, RevocationApplied
  <2> QED BY <1>0, <2>1, <2>2 DEF Recalls, Agrees
<1>3. ASSUME NEW h \in Hosts,
             e = Vote(h)
      PROVE  Recalls(Apply(m, e), Apply(l, e))
  <2>1. /\ Apply(m, e).marks = m.marks
        /\ Apply(m, e).revoked = m.revoked
        /\ Apply(m, e).vote = h
        /\ Apply(m, e).access = m.access
        /\ Apply(m, e).consumed = m.consumed
    BY <1>3, VoteApplied
  <2>2. /\ Apply(l, e).marks = l.marks
        /\ Apply(l, e).revoked = l.revoked
        /\ Apply(l, e).vote = h
        /\ Apply(l, e).access = l.access
        /\ Apply(l, e).consumed = l.consumed
    BY <1>3, VoteApplied
  <2> QED BY <1>0, <2>1, <2>2 DEF Recalls, Agrees
<1>4. ASSUME NEW h \in Hosts, NEW g \in Generations,
             e = Access(h, g)
      PROVE  Recalls(Apply(m, e), Apply(l, e))
  <2>1. /\ Apply(m, e).marks = m.marks
        /\ Apply(m, e).revoked = m.revoked
        /\ Apply(m, e).vote = m.vote
        /\ Apply(m, e).access = [m.access EXCEPT ![h] = g]
        /\ Apply(m, e).consumed = m.consumed
    BY <1>4, AccessApplied
  <2>2. /\ Apply(l, e).marks = l.marks
        /\ Apply(l, e).revoked = l.revoked
        /\ Apply(l, e).vote = l.vote
        /\ Apply(l, e).access = [l.access EXCEPT ![h] = g]
        /\ Apply(l, e).consumed = l.consumed
    BY <1>4, AccessApplied
  <2>3. \A k \in Hosts : [l.access EXCEPT ![h] = g][k] # 0 =>
            [m.access EXCEPT ![h] = g][k] = [l.access EXCEPT ![h] = g][k]
    BY <1>0, LedgerIs
  <2> QED BY <1>0, <2>1, <2>2, <2>3 DEF Recalls, Agrees
<1>5. ASSUME NEW t \in Tokens, NEW h \in Hosts,
             e = Pairing(t, h)
      PROVE  Recalls(Apply(m, e), Apply(l, e))
  <2>1. /\ Apply(m, e).marks = m.marks
        /\ Apply(m, e).revoked = m.revoked
        /\ Apply(m, e).vote = m.vote
        /\ Apply(m, e).access = m.access
        /\ Apply(m, e).consumed = [m.consumed EXCEPT ![t] = h]
    BY <1>5, PairingApplied
  <2>2. /\ Apply(l, e).marks = l.marks
        /\ Apply(l, e).revoked = l.revoked
        /\ Apply(l, e).vote = l.vote
        /\ Apply(l, e).access = l.access
        /\ Apply(l, e).consumed = [l.consumed EXCEPT ![t] = h]
    BY <1>5, PairingApplied
  <2> QED BY <1>0, <2>1, <2>2 DEF Recalls, Agrees
<1> QED BY <1>1, <1>2, <1>3, <1>4, <1>5, EventIs

LEMMA ReplayableAgrees ==
    ASSUME NEW m, NEW l, NEW e \in Event, Agrees(m, l), Replayable(l, e)
    PROVE  Replayable(m, e)
BY DEF Agrees, Replayable, AppliesHighWaterMark, AcceptsRevocation, AcceptedGeneration

States == [ok: BOOLEAN, ledger: Ledger, head: Seq(Event)]

Read(l, es) == [ok |-> TRUE, ledger |-> l, head |-> es]

LEMMA ReadIs ==
    ASSUME NEW l \in Ledger, NEW es \in Seq(Event)
    PROVE  /\ Read(l, es) \in States /\ Read(l, es).ok
           /\ Read(l, es).ledger = l /\ Read(l, es).head = es
BY DEF Read, States

LEMMA EmptyIs == EmptyLedger \in Ledger /\ Start = Read(EmptyLedger, <<>>) /\ Start \in States
<1>1. EmptyLedger = Cells([h \in Hosts |-> NoMark],
                          [h \in Hosts |-> [g \in Generations |-> 0]], Nobody,
                          [h \in Hosts |-> 0], [t \in Tokens |-> Nobody])
  BY DEF EmptyLedger, Cells
<1>2. 0 \in 0..MaxGeneration
  BY Bounds
<1>3. EmptyLedger \in Ledger
  BY <1>1, <1>2, LedgerOf
<1> QED BY <1>3, EmptySeq, ReadIs DEF Start, Read

LEMMA ReplayLineIs ==
    ASSUME NEW s \in States, NEW x \in Whole
    PROVE  /\ ReplayLine(s, x) \in States
           /\ ReplayLine(s, x).ok <=> s.ok /\ x.prev = s.head /\ Replayable(s.ledger, x.event)
           /\ ReplayLine(s, x).ok => ReplayLine(s, x) = Read(Apply(s.ledger, x.event),
                                                            Append(s.head, x.event))
<1>1. x.event \in Event /\ x.status = "whole" /\ s.ledger \in Ledger /\ s.head \in Seq(Event)
      /\ s.ok \in BOOLEAN
  BY DEF Whole, States
<1>2. Apply(s.ledger, x.event) \in Ledger /\ Append(s.head, x.event) \in Seq(Event)
  BY <1>1, ApplyType, AppendProperties
<1>3. [s EXCEPT !.ok = FALSE] \in States /\ ~[s EXCEPT !.ok = FALSE].ok
  BY DEF States
<1>4. Read(Apply(s.ledger, x.event), Append(s.head, x.event)) \in States
      /\ Read(Apply(s.ledger, x.event), Append(s.head, x.event)).ok
  BY <1>2, ReadIs
<1>5. CASE s.ok /\ x.prev = s.head /\ Replayable(s.ledger, x.event)
  <2>1. ReplayLine(s, x) = Read(Apply(s.ledger, x.event), Append(s.head, x.event))
    BY <1>1, <1>5 DEF ReplayLine, Read
  <2> QED BY <1>4, <1>5, <2>1
<1>6. CASE ~(s.ok /\ x.prev = s.head /\ Replayable(s.ledger, x.event))
  <2>1. ReplayLine(s, x) = [s EXCEPT !.ok = FALSE]
    BY <1>1, <1>6 DEF ReplayLine
  <2> QED BY <1>3, <1>6, <2>1
<1> QED BY <1>5, <1>6

\* A file of the events es gives the ledger l back.
Rebuilds(es, l) ==
    /\ es \in Seq(Event)
    /\ \E m \in Ledger : Replays(FileOf(es), Read(m, es)) /\ Recalls(m, l)

\* The replay of the lines fails.
Unreadable(lines) == lines \in Seq(Whole) /\ \E s \in States : Replays(lines, s) /\ ~s.ok

LEMMA FileOfNothing == FileOf(<<>>) = <<>>
<1>1. <<>> \in Seq(Event) /\ Len(<<>>) = 0 /\ <<>> \in Seq(Whole)
  BY EmptySeq
<1>2. FileOf(<<>>) \in Seq(Whole) /\ Len(FileOf(<<>>)) = 0
  BY <1>1, FileOfIs
<1> QED BY <1>1, <1>2, EmptySeq

LEMMA RebuildsNothing == Rebuilds(<<>>, EmptyLedger)
<1>1. Replays(<<>>, Read(EmptyLedger, <<>>))
  BY ReplaysNothing, EmptyIs
<1>2. Recalls(EmptyLedger, EmptyLedger)
  BY DEF Recalls, Agrees
<1> QED BY <1>1, <1>2, FileOfNothing, EmptyIs, EmptySeq DEF Rebuilds

LEMMA RebuildsAppend ==
    ASSUME NEW es, NEW l \in Ledger, Rebuilds(es, l), NEW e \in Event, Replayable(l, e)
    PROVE  Rebuilds(Append(es, e), Apply(l, e))
<1>1. PICK m \in Ledger : Replays(FileOf(es), Read(m, es)) /\ Recalls(m, l)
  BY DEF Rebuilds
<1>2. es \in Seq(Event) /\ FileOf(es) \in Seq(Whole)
  BY FileOfIs DEF Rebuilds
<1> DEFINE x == Line(es, e, "whole")
           s == Read(m, es)
<1>3. x \in Whole /\ x.prev = es /\ x.event = e
  BY <1>2, LineIs
<1>4. s \in States /\ s.ok /\ s.ledger = m /\ s.head = es
  BY <1>2, ReadIs
<1>5. Replayable(m, e)
  BY <1>1, ReplayableAgrees DEF Recalls
<1>6. Replays(Append(FileOf(es), x), ReplayLine(s, x))
  BY <1>1, <1>2, <1>3, ReplaysAppend
<1>7. ReplayLine(s, x) = Read(Apply(m, e), Append(es, e))
  <2> HIDE DEF x, s
  <2>1. ReplayLine(s, x).ok
    BY <1>3, <1>4, <1>5, ReplayLineIs
  <2> QED BY <1>3, <1>4, <2>1, ReplayLineIs
<1>8. FileOf(Append(es, e)) = Append(FileOf(es), x)
  BY <1>2, FileOfAppend
<1>9. Apply(m, e) \in Ledger /\ Recalls(Apply(m, e), Apply(l, e)) /\ Append(es, e) \in Seq(Event)
  BY <1>1, <1>2, ApplyType, RecallsApply, AppendProperties
<1> QED BY <1>6, <1>7, <1>8, <1>9 DEF Rebuilds

LEMMA RebuildsRecalls ==
    ASSUME NEW es, NEW l \in Ledger, NEW k \in Ledger, Rebuilds(es, l), Recalls(l, k)
    PROVE  Rebuilds(es, k)
BY DEF Rebuilds, Recalls, Agrees

LEMMA RebuildsReplays ==
    ASSUME NEW es, NEW l \in Ledger, Rebuilds(es, l)
    PROVE  /\ FileOf(es) \in Seq(Whole)
           /\ \E m \in Ledger : Recalls(m, l) /\ Rebuilds(es, m)
                  /\ \A lines : Recovered(lines) = FileOf(es) => Replay(lines) = Read(m, es)
<1>1. PICK m \in Ledger : Replays(FileOf(es), Read(m, es)) /\ Recalls(m, l)
  BY DEF Rebuilds
<1>2. FileOf(es) \in Seq(Whole)
  BY FileOfIs DEF Rebuilds
<1>3. Recalls(m, m)
  BY DEF Recalls, Agrees
<1>4. Rebuilds(es, m)
  BY <1>1, <1>3 DEF Rebuilds
<1>5. ASSUME NEW lines, Recovered(lines) = FileOf(es) PROVE Replay(lines) = Read(m, es)
  BY <1>1, <1>2, <1>5, ReplaysGives
<1> QED BY <1>1, <1>2, <1>4, <1>5

LEMMA UnreadableAppend ==
    ASSUME NEW lines, Unreadable(lines), NEW x \in Whole
    PROVE  Unreadable(Append(lines, x))
<1>1. PICK s \in States : Replays(lines, s) /\ ~s.ok
  BY DEF Unreadable
<1>2. ReplayLine(s, x) \in States /\ ~ReplayLine(s, x).ok
  BY <1>1, ReplayLineIs
<1>3. lines \in Seq(Whole) /\ Append(lines, x) \in Seq(Whole)
  BY AppendProperties DEF Unreadable
<1>4. Replays(Append(lines, x), ReplayLine(s, x))
  BY <1>1, <1>3, ReplaysAppend
<1> QED BY <1>2, <1>3, <1>4 DEF Unreadable

LEMMA UnreadableFails ==
    ASSUME NEW lines, NEW kept, Recovered(lines) = kept, Unreadable(kept)
    PROVE  ~Replay(lines).ok
BY ReplaysGives DEF Unreadable

\* The line after one whose fsync threw does not continue it.
LEMMA SkippedLine ==
    ASSUME NEW es, NEW l \in Ledger, Rebuilds(es, l), NEW e \in Event, NEW f \in Event
    PROVE  Unreadable(Append(FileOf(Append(es, e)), Line(es, f, "whole")))
<1>1. PICK m \in Ledger : Replays(FileOf(es), Read(m, es)) /\ Recalls(m, l)
  BY DEF Rebuilds
<1>2. es \in Seq(Event) /\ FileOf(es) \in Seq(Whole)
  BY FileOfIs DEF Rebuilds
<1> DEFINE x == Line(es, e, "whole")
           y == Line(es, f, "whole")
           s == Read(m, es)
           t == ReplayLine(s, x)
<1>3. x \in Whole /\ x.prev = es /\ x.event = e /\ y \in Whole /\ y.prev = es
  BY <1>2, LineIs
<1>4. s \in States /\ s.head = es /\ s.ledger = m
  BY <1>2, ReadIs
<1>5. Replays(Append(FileOf(es), x), t) /\ Append(FileOf(es), x) \in Seq(Whole)
  BY <1>1, <1>2, <1>3, ReplaysAppend, AppendProperties
<1>6. FileOf(Append(es, e)) = Append(FileOf(es), x)
  BY <1>2, FileOfAppend
<1> HIDE DEF x, y, s
<1>7. t \in States /\ (t.ok => t.head = Append(es, e))
  <2>1. t.ok => t = Read(Apply(m, e), Append(es, e))
    BY <1>3, <1>4, ReplayLineIs
  <2>2. Apply(m, e) \in Ledger /\ Append(es, e) \in Seq(Event)
    BY <1>2, ApplyType, AppendProperties
  <2>3. t \in States
    BY <1>3, <1>4, ReplayLineIs
  <2>4. Read(Apply(m, e), Append(es, e)).head = Append(es, e)
    BY <2>2, ReadIs
  <2> QED BY <2>1, <2>3, <2>4
<1> HIDE DEF t
<1>8. Append(es, e) # es
  <2>1. Len(Append(es, e)) = Len(es) + 1 /\ Len(es) \in Nat
    BY <1>2, AppendProperties, LenProperties
  <2> QED BY <2>1
<1>9. ReplayLine(t, y) \in States /\ ~ReplayLine(t, y).ok
  BY <1>3, <1>7, <1>8, ReplayLineIs
<1>10. /\ Replays(Append(Append(FileOf(es), x), y), ReplayLine(t, y))
       /\ Append(Append(FileOf(es), x), y) \in Seq(Whole)
  BY <1>3, <1>5, ReplaysAppend, AppendProperties
<1>11. Unreadable(Append(Append(FileOf(es), x), y))
  BY <1>9, <1>10 DEF Unreadable
<1> QED BY <1>6, <1>11 DEF y

-----------------------------------------------------------------------------
(***************************************************************************)
(* The checkpoint of a ledger rebuilds it.                                 *)
(***************************************************************************)
LEMMA FiniteImage ==
    ASSUME NEW S, IsFiniteSet(S), NEW T, NEW f \in [S -> T]
    PROVE  IsFiniteSet({f[x] : x \in S})
<1> DEFINE U == {f[x] : x \in S}
<1>1. f \in [S -> U] /\ \A t \in U : \E x \in S : f[x] = t
  OBVIOUS
<1> HIDE DEF U
<1>2. f \in Surjection(S, U)
  BY <1>1, Fun_IsSurj
<1>3. IsFiniteSet(U)
  BY <1>2, FS_Surjection
<1> QED BY <1>3 DEF U

LEMMA SetToSeqIs ==
    ASSUME NEW S, IsFiniteSet(S)
    PROVE  /\ SetToSeq(S) \in Seq(S) /\ ToSet(SetToSeq(S)) = S
           /\ \A i, j \in 1..Len(SetToSeq(S)) : SetToSeq(S)[i] = SetToSeq(S)[j] => i = j
<1> DEFINE n == Cardinality(S)
           q == SetToSeq(S)
<1>1. n \in Nat /\ ExistsBijection(1..n, S)
  BY FS_CardinalityType
<1>2. PICK f \in [1..n -> S] : \A i, j \in 1..n : f[i] = f[j] => i = j
  BY <1>1, Fun_ExistsBij, Fun_BijectionProperties
<1>3. q \in [1..n -> S] /\ \A i, j \in 1..n : q[i] = q[j] => i = j
  <2>1. IsInjective(f)
    BY <1>2 DEF IsInjective
  <2>2. q \in [1..n -> S] /\ IsInjective(q)
    BY <1>2, <2>1, Zenon DEF SetToSeq
  <2>3. DOMAIN q = 1..n
    BY <2>2
  <2> QED BY <2>2, <2>3 DEF IsInjective
<1> HIDE DEF q
<1>4. q \in Seq(S) /\ Len(q) = n
  BY <1>1, <1>3, SeqDef, LenProperties
<1>5. {q[i] : i \in 1..n} = S
  <2>1. q \in Injection(1..n, S)
    BY <1>3, Fun_IsInj
  <2>2. IsFiniteSet(1..n) /\ Cardinality(1..n) = n
    BY <1>1, FS_Interval
  <2>3. q \in Surjection(1..n, S)
    BY <2>1, <2>2, FS_Injection
  <2>4. \A x \in S : \E i \in 1..n : q[i] = x
    BY <2>3 DEF Surjection
  <2>5. \A i \in 1..n : q[i] \in S
    BY <1>3
  <2> QED BY <2>4, <2>5
<1>6. ToSet(q) = S
  BY <1>3, <1>5 DEF ToSet
<1> QED BY <1>3, <1>4, <1>6 DEF q

\* No event is there twice, and no revocation after a mark.
Sorted(s) ==
    /\ s \in Seq(Event)
    /\ \A i, j \in 1..Len(s) : j < i =>
           s[i] # s[j] /\ ~(s[i].type = "revocation" /\ s[j].type = "highWater")

LEMMA SortedConcat ==
    ASSUME NEW s, NEW t, Sorted(s), Sorted(t),
           \A e \in ToSet(s), f \in ToSet(t) : e.type # f.type /\ f.type # "revocation"
    PROVE  Sorted(s \o t) /\ ToSet(s \o t) = ToSet(s) \cup ToSet(t)
<1> DEFINE m == Len(s)
           n == Len(t)
           u == s \o t
<1>1. /\ m \in Nat /\ n \in Nat /\ u \in Seq(Event) /\ Len(u) = m + n
      /\ \A i \in 1..(m + n) : u[i] = IF i <= m THEN s[i] ELSE t[i - m]
      /\ DOMAIN s = 1..m /\ DOMAIN t = 1..n /\ DOMAIN u = 1..(m + n)
  BY ConcatProperties, LenProperties DEF Sorted
<1> HIDE DEF m, n, u
<1>2. /\ \A i \in 1..m : i \in 1..(m + n) /\ u[i] = s[i]
      /\ \A i \in 1..n : i + m \in 1..(m + n) /\ u[i + m] = t[i]
      /\ \A i \in 1..(m + n) : i \in 1..m \/ (i > m /\ i - m \in 1..n /\ u[i] = t[i - m])
  <2>1. \A i \in 1..n : i + m \in 1..(m + n) /\ ~(i + m <= m) /\ (i + m) - m = i
    BY <1>1
  <2> QED BY <1>1, <2>1
<1>3. ToSet(u) = ToSet(s) \cup ToSet(t)
  <2>1. ASSUME NEW e \in ToSet(u) PROVE e \in ToSet(s) \cup ToSet(t)
    <3>1. PICK i \in 1..(m + n) : u[i] = e
      BY <1>1 DEF ToSet
    <3>2. CASE i \in 1..m
      <4>1. i \in DOMAIN s /\ s[i] = e
        BY <1>1, <1>2, <3>1, <3>2
      <4> QED BY <4>1 DEF ToSet
    <3>3. CASE i \notin 1..m
      <4>1. i - m \in DOMAIN t /\ t[i - m] = e
        BY <1>1, <1>2, <3>1, <3>3
      <4> QED BY <4>1 DEF ToSet
    <3> QED BY <3>2, <3>3
  <2>2. ASSUME NEW e \in ToSet(s) PROVE e \in ToSet(u)
    <3>1. PICK i \in 1..m : s[i] = e
      BY <1>1 DEF ToSet
    <3>2. i \in DOMAIN u /\ u[i] = e
      BY <1>1, <1>2, <3>1
    <3> QED BY <3>2 DEF ToSet
  <2>3. ASSUME NEW e \in ToSet(t) PROVE e \in ToSet(u)
    <3>1. PICK i \in 1..n : e = t[i]
      BY <1>1 DEF ToSet
    <3>2. i + m \in DOMAIN u /\ u[i + m] = e
      BY <1>1, <1>2, <3>1
    <3> QED BY <3>2 DEF ToSet
  <2> QED BY <2>1, <2>2, <2>3
<1>4. ASSUME NEW i \in 1..(m + n), NEW j \in 1..(m + n), j < i
      PROVE  u[i] # u[j] /\ ~(u[i].type = "revocation" /\ u[j].type = "highWater")
  <2>1. CASE i \in 1..m
    <3>1. j \in 1..m
      BY <1>1, <1>4, <2>1
    <3> QED BY <1>2, <1>4, <2>1, <3>1 DEF Sorted, m
  <2>2. CASE i > m /\ i - m \in 1..n /\ u[i] = t[i - m]
    <3>1. u[i] \in ToSet(t)
      BY <1>1, <2>2 DEF ToSet
    <3>2. CASE j \in 1..m
      <4>1. u[j] \in ToSet(s)
        BY <1>1, <1>2, <3>2 DEF ToSet
      <4> QED BY <3>1, <4>1
    <3>3. CASE j > m /\ j - m \in 1..n /\ u[j] = t[j - m]
      <4>1. j - m < i - m
        BY <1>1, <1>4, <2>2, <3>3
      <4> QED BY <2>2, <3>3, <4>1 DEF Sorted, n
    <3> QED BY <1>2, <3>2, <3>3
  <2> QED BY <1>2, <2>1, <2>2
<1>5. Sorted(u)
  BY <1>1, <1>4 DEF Sorted
<1> QED BY <1>3, <1>5 DEF u

LEMMA SetToSeqSorted ==
    ASSUME NEW S \in SUBSET Event, IsFiniteSet(S),
           \A e, f \in S : ~(e.type = "revocation" /\ f.type = "highWater")
    PROVE  Sorted(SetToSeq(S)) /\ ToSet(SetToSeq(S)) = S
<1>1. /\ SetToSeq(S) \in Seq(S) /\ ToSet(SetToSeq(S)) = S
      /\ \A i, j \in 1..Len(SetToSeq(S)) : SetToSeq(S)[i] = SetToSeq(S)[j] => i = j
  BY SetToSeqIs
<1>2. \A i \in 1..Len(SetToSeq(S)) : SetToSeq(S)[i] \in S
  BY <1>1, ElementOfSeq
<1>3. SetToSeq(S) \in Seq(Event)
  BY <1>1, SeqMonotonic
<1>4. \A i, j \in 1..Len(SetToSeq(S)) : j < i => i # j
  BY <1>1, LenProperties
<1> QED BY <1>1, <1>2, <1>3, <1>4 DEF Sorted

LEMMA TypesAre ==
    /\ \A h, m : HighWater(h, m).type = "highWater"
    /\ \A h, g, r : Revocation(h, g, r).type = "revocation"
    /\ \A h : Vote(h).type = "promotionVote"
    /\ \A h, g : Access(h, g).type = "hostAccess"
    /\ \A t, h : Pairing(t, h).type = "pairingConsumed"
BY DEF HighWater, Revocation, Vote, Access, Pairing

LEMMA RevocationsAre ==
    ASSUME NEW l \in Ledger
    PROVE  /\ Revocations(l) \in SUBSET Event /\ IsFiniteSet(Revocations(l))
           /\ \A e \in Revocations(l) : e.type = "revocation"
<1> DEFINE S == {y \in Hosts \X Generations : l.revoked[y[1]][y[2]] # 0}
           f == [x \in S |-> Revocation(x[1], x[2], l.revoked[x[1]][x[2]])]
<1>1. ASSUME NEW x \in S PROVE Revocation(x[1], x[2], l.revoked[x[1]][x[2]]) \in Event
  <2>1. /\ x[1] \in Hosts /\ x[2] \in Generations
        /\ l.revoked[x[1]][x[2]] \in 0..MaxGeneration /\ l.revoked[x[1]][x[2]] # 0
    BY LedgerIs
  <2>2. l.revoked[x[1]][x[2]] \in Generations
    BY <2>1, Bounds DEF Generations
  <2> QED BY <2>1, <2>2, EventsAre
<1>2. IsFiniteSet(S)
  <2>1. IsFiniteSet(Generations)
    BY Bounds, FS_Interval DEF Generations
  <2>2. IsFiniteSet(Hosts \X Generations)
    BY <2>1, LedgerAssumption, FS_Product
  <2> QED BY <2>2, FS_Subset
<1>3. f \in [S -> Event]
  BY <1>1
<1>4. Revocations(l) = {f[x] : x \in S}
  BY DEF Revocations
<1> HIDE DEF S
<1>5. IsFiniteSet({f[x] : x \in S})
  <2> HIDE DEF f
  <2> QED BY <1>2, <1>3, FiniteImage
<1>6. \A e \in Revocations(l) : e \in Event /\ e.type = "revocation"
  BY <1>1, <1>4, TypesAre
<1> QED BY <1>4, <1>5, <1>6

LEMMA PairingsAre ==
    ASSUME NEW l \in Ledger
    PROVE  /\ Pairings(l) \in SUBSET Event /\ IsFiniteSet(Pairings(l))
           /\ \A e \in Pairings(l) : e.type = "pairingConsumed"
<1> DEFINE S == {u \in Tokens : l.consumed[u] # Nobody}
           f == [t \in S |-> Pairing(t, l.consumed[t])]
<1>1. ASSUME NEW t \in S PROVE Pairing(t, l.consumed[t]) \in Event
  <2>1. t \in Tokens /\ l.consumed[t] \in Hosts
    BY LedgerIs
  <2> QED BY <2>1, EventsAre
<1>2. IsFiniteSet(S)
  BY LedgerAssumption, FS_Subset
<1>3. f \in [S -> Event]
  BY <1>1
<1>4. Pairings(l) = {f[t] : t \in S}
  BY DEF Pairings
<1> HIDE DEF S
<1>5. IsFiniteSet({f[t] : t \in S})
  <2> HIDE DEF f
  <2> QED BY <1>2, <1>3, FiniteImage
<1>6. \A e \in Pairings(l) : e \in Event /\ e.type = "pairingConsumed"
  BY <1>1, <1>4, TypesAre
<1> QED BY <1>4, <1>5, <1>6

LEMMA HighWatersAre ==
    ASSUME NEW l \in Ledger
    PROVE  /\ HighWaters(l) \in SUBSET Event /\ IsFiniteSet(HighWaters(l))
           /\ \A e \in HighWaters(l) : e.type = "highWater"
<1> DEFINE S == {k \in Hosts : l.marks[k] # NoMark}
           f == [h \in S |-> HighWater(h, l.marks[h])]
<1>1. ASSUME NEW h \in S PROVE HighWater(h, l.marks[h]) \in Event
  <2>1. h \in Hosts /\ l.marks[h] \in Mark
    BY LedgerIs
  <2> QED BY <2>1, EventsAre
<1>2. IsFiniteSet(S)
  BY LedgerAssumption, FS_Subset
<1>3. f \in [S -> Event]
  BY <1>1
<1>4. HighWaters(l) = {f[h] : h \in S}
  BY DEF HighWaters
<1> HIDE DEF S
<1>5. IsFiniteSet({f[h] : h \in S})
  <2> HIDE DEF f
  <2> QED BY <1>2, <1>3, FiniteImage
<1>6. \A e \in HighWaters(l) : e \in Event /\ e.type = "highWater"
  BY <1>1, <1>4, TypesAre
<1> QED BY <1>4, <1>5, <1>6

LEMMA AccessesAre ==
    ASSUME NEW l \in Ledger
    PROVE  /\ Accesses(l) \in SUBSET Event /\ IsFiniteSet(Accesses(l))
           /\ \A e \in Accesses(l) : e.type = "hostAccess"
<1> DEFINE S == {k \in Hosts : l.access[k] # 0}
           f == [h \in S |-> Access(h, l.access[h])]
<1>1. ASSUME NEW h \in S PROVE Access(h, l.access[h]) \in Event
  <2>1. h \in Hosts /\ l.access[h] \in 0..MaxGeneration /\ l.access[h] # 0
    BY LedgerIs
  <2>2. l.access[h] \in Generations
    BY <2>1, Bounds DEF Generations
  <2> QED BY <2>1, <2>2, EventsAre
<1>2. IsFiniteSet(S)
  BY LedgerAssumption, FS_Subset
<1>3. f \in [S -> Event]
  BY <1>1
<1>4. Accesses(l) = {f[h] : h \in S}
  BY DEF Accesses
<1> HIDE DEF S
<1>5. IsFiniteSet({f[h] : h \in S})
  <2> HIDE DEF f
  <2> QED BY <1>2, <1>3, FiniteImage
<1>6. \A e \in Accesses(l) : e \in Event /\ e.type = "hostAccess"
  BY <1>1, <1>4, TypesAre
<1> QED BY <1>4, <1>5, <1>6

LEMMA VotesAre ==
    ASSUME NEW l \in Ledger
    PROVE  /\ Votes(l) \in SUBSET Event /\ IsFiniteSet(Votes(l))
           /\ \A e \in Votes(l) : e.type = "promotionVote"
<1>1. Votes(l) \subseteq {Vote(l.vote)}
  BY DEF Votes
<1>2. \A e \in Votes(l) : e \in Event /\ e.type = "promotionVote"
  BY LedgerIs, EventsAre, TypesAre DEF Votes
<1>3. IsFiniteSet({Vote(l.vote)})
  BY FS_Singleton
<1>4. IsFiniteSet(Votes(l))
  BY <1>1, <1>3, FS_Subset
<1> QED BY <1>2, <1>4

\* The events of a checkpoint, each once and the marks after the revocations.
Saved(l) == Revocations(l) \cup Pairings(l) \cup HighWaters(l) \cup Votes(l) \cup Accesses(l)

LEMMA CheckpointIs ==
    ASSUME NEW l \in Ledger
    PROVE  Sorted(Checkpoint(l)) /\ ToSet(Checkpoint(l)) = Saved(l)
<1> DEFINE r == SetToSeq(Revocations(l))
           p == SetToSeq(Pairings(l))
           m == SetToSeq(HighWaters(l))
           v == SetToSeq(Votes(l))
           a == SetToSeq(Accesses(l))
<1>1. Sorted(r) /\ ToSet(r) = Revocations(l)
  BY RevocationsAre, SetToSeqSorted
<1>2. Sorted(p) /\ ToSet(p) = Pairings(l)
  BY PairingsAre, SetToSeqSorted
<1>3. Sorted(m) /\ ToSet(m) = HighWaters(l)
  BY HighWatersAre, SetToSeqSorted
<1>4. Sorted(v) /\ ToSet(v) = Votes(l)
  BY VotesAre, SetToSeqSorted
<1>5. Sorted(a) /\ ToSet(a) = Accesses(l)
  BY AccessesAre, SetToSeqSorted
<1> HIDE DEF r, p, m, v, a
<1>6. Sorted(r \o p) /\ ToSet(r \o p) = Revocations(l) \cup Pairings(l)
  BY <1>1, <1>2, RevocationsAre, PairingsAre, SortedConcat
<1>7. Sorted((r \o p) \o m) /\ ToSet((r \o p) \o m) = Revocations(l) \cup Pairings(l) \cup HighWaters(l)
  BY <1>3, <1>6, RevocationsAre, PairingsAre, HighWatersAre, SortedConcat
<1>8. Sorted(((r \o p) \o m) \o v)
      /\ ToSet(((r \o p) \o m) \o v)
             = Revocations(l) \cup Pairings(l) \cup HighWaters(l) \cup Votes(l)
  BY <1>4, <1>7, RevocationsAre, PairingsAre, HighWatersAre, VotesAre, SortedConcat
<1>9. Sorted((((r \o p) \o m) \o v) \o a) /\ ToSet((((r \o p) \o m) \o v) \o a) = Saved(l)
  BY <1>5, <1>8, RevocationsAre, PairingsAre, HighWatersAre, VotesAre, AccessesAre, SortedConcat
     DEF Saved
<1>10. Checkpoint(l) = (((r \o p) \o m) \o v) \o a
  BY DEF Checkpoint, r, p, m, v, a
<1> QED BY <1>9, <1>10

LEMMA FieldsAre ==
    /\ \A h, m : HighWater(h, m).host = h /\ HighWater(h, m).mark = m
    /\ \A h, g, r : /\ Revocation(h, g, r).host = h /\ Revocation(h, g, r).grant = g
                    /\ Revocation(h, g, r).generation = r
    /\ \A h : Vote(h).host = h
    /\ \A h, g : Access(h, g).host = h /\ Access(h, g).grant = g
    /\ \A t, h : Pairing(t, h).token = t /\ Pairing(t, h).host = h
BY DEF HighWater, Revocation, Vote, Access, Pairing

\* What the events of E say of the ledger l.
MarksIn(l, E) ==
    [h \in Hosts |-> IF HighWater(h, l.marks[h]) \in E THEN l.marks[h] ELSE NoMark]
RevokedIn(l, E) ==
    [h \in Hosts |-> [g \in Generations |->
        IF Revocation(h, g, l.revoked[h][g]) \in E THEN l.revoked[h][g] ELSE 0]]
VoteIn(l, E) == IF Vote(l.vote) \in E THEN l.vote ELSE Nobody
AccessIn(l, E) == [h \in Hosts |-> IF Access(h, l.access[h]) \in E THEN l.access[h] ELSE 0]
ConsumedIn(l, E) ==
    [t \in Tokens |-> IF Pairing(t, l.consumed[t]) \in E THEN l.consumed[t] ELSE Nobody]

Partial(l, E) ==
    Cells(MarksIn(l, E), RevokedIn(l, E), VoteIn(l, E), AccessIn(l, E), ConsumedIn(l, E))

LEMMA PartialIs ==
    ASSUME NEW l \in Ledger, NEW E
    PROVE  /\ Partial(l, E) \in Ledger
           /\ Partial(l, E).marks = MarksIn(l, E) /\ Partial(l, E).revoked = RevokedIn(l, E)
           /\ Partial(l, E).vote = VoteIn(l, E) /\ Partial(l, E).access = AccessIn(l, E)
           /\ Partial(l, E).consumed = ConsumedIn(l, E)
<1>1. MarksIn(l, E) \in [Hosts -> Mark \cup {NoMark}]
  BY LedgerIs DEF MarksIn
<1>2. RevokedIn(l, E) \in [Hosts -> [Generations -> 0..MaxGeneration]]
  BY LedgerIs, Bounds DEF RevokedIn
<1>3. VoteIn(l, E) \in Hosts \cup {Nobody}
  BY LedgerIs DEF VoteIn
<1>4. AccessIn(l, E) \in [Hosts -> 0..MaxGeneration]
  BY LedgerIs, Bounds DEF AccessIn
<1>5. ConsumedIn(l, E) \in [Tokens -> Hosts \cup {Nobody}]
  BY LedgerIs DEF ConsumedIn
<1>6. Partial(l, E) \in Ledger
  BY <1>1, <1>2, <1>3, <1>4, <1>5, LedgerOf DEF Partial
<1> QED BY <1>6, CellsAre DEF Partial

LEMMA PartialNothing ==
    ASSUME NEW l \in Ledger
    PROVE  Partial(l, {}) = EmptyLedger
BY DEF Partial, MarksIn, RevokedIn, VoteIn, AccessIn, ConsumedIn, EmptyLedger, Cells

LEMMA PartialAll ==
    ASSUME NEW l \in Ledger
    PROVE  Partial(l, Saved(l)) = l
<1>1. MarksIn(l, Saved(l)) = l.marks
  <2>1. \A h \in Hosts : l.marks[h] # NoMark => HighWater(h, l.marks[h]) \in Saved(l)
    BY DEF Saved, HighWaters
  <2>2. MarksIn(l, Saved(l)) = [h \in Hosts |-> l.marks[h]]
    BY <2>1 DEF MarksIn
  <2> QED BY <2>2, LedgerIs
<1>2. RevokedIn(l, Saved(l)) = l.revoked
  <2>1. ASSUME NEW h \in Hosts, NEW g \in Generations, l.revoked[h][g] # 0
        PROVE  Revocation(h, g, l.revoked[h][g]) \in Saved(l)
    <3> DEFINE x == <<h, g>>
    <3>1. x \in {y \in Hosts \X Generations : l.revoked[y[1]][y[2]] # 0}
      BY <2>1
    <3>2. Revocation(x[1], x[2], l.revoked[x[1]][x[2]]) \in Revocations(l)
      BY <3>1 DEF Revocations
    <3> QED BY <3>2 DEF Saved
  <2>2. RevokedIn(l, Saved(l)) = [h \in Hosts |-> [g \in Generations |-> l.revoked[h][g]]]
    BY <2>1 DEF RevokedIn
  <2>3. \A h \in Hosts : [g \in Generations |-> l.revoked[h][g]] = l.revoked[h]
    BY LedgerIs
  <2>4. RevokedIn(l, Saved(l)) = [h \in Hosts |-> l.revoked[h]]
    BY <2>2, <2>3
  <2> QED BY <2>4, LedgerIs
<1>3. VoteIn(l, Saved(l)) = l.vote
  BY DEF VoteIn, Saved, Votes
<1>4. AccessIn(l, Saved(l)) = l.access
  <2>1. \A h \in Hosts : l.access[h] # 0 => Access(h, l.access[h]) \in Saved(l)
    BY DEF Saved, Accesses
  <2>2. AccessIn(l, Saved(l)) = [h \in Hosts |-> l.access[h]]
    BY <2>1 DEF AccessIn
  <2> QED BY <2>2, LedgerIs
<1>5. ConsumedIn(l, Saved(l)) = l.consumed
  <2>1. \A t \in Tokens : l.consumed[t] # Nobody => Pairing(t, l.consumed[t]) \in Saved(l)
    BY DEF Saved, Pairings
  <2>2. ConsumedIn(l, Saved(l)) = [t \in Tokens |-> l.consumed[t]]
    BY <2>1 DEF ConsumedIn
  <2> QED BY <2>2, LedgerIs
<1> QED BY <1>1, <1>2, <1>3, <1>4, <1>5, LedgerIs DEF Partial

\* An event of one kind leaves what E says of the others.
LEMMA OthersKept ==
    ASSUME NEW l, NEW E, NEW e
    PROVE  /\ e.type # "highWater" => MarksIn(l, E \cup {e}) = MarksIn(l, E)
           /\ e.type # "revocation" => RevokedIn(l, E \cup {e}) = RevokedIn(l, E)
           /\ e.type # "promotionVote" => VoteIn(l, E \cup {e}) = VoteIn(l, E)
           /\ e.type # "hostAccess" => AccessIn(l, E \cup {e}) = AccessIn(l, E)
           /\ e.type # "pairingConsumed" => ConsumedIn(l, E \cup {e}) = ConsumedIn(l, E)
<1>1. ASSUME e.type # "highWater" PROVE MarksIn(l, E \cup {e}) = MarksIn(l, E)
  <2>1. \A h \in Hosts : HighWater(h, l.marks[h]) # e
    BY <1>1, TypesAre
  <2> QED BY <2>1 DEF MarksIn
<1>2. ASSUME e.type # "revocation" PROVE RevokedIn(l, E \cup {e}) = RevokedIn(l, E)
  <2>1. \A h \in Hosts, g \in Generations : Revocation(h, g, l.revoked[h][g]) # e
    BY <1>2, TypesAre
  <2> QED BY <2>1 DEF RevokedIn
<1>3. ASSUME e.type # "promotionVote" PROVE VoteIn(l, E \cup {e}) = VoteIn(l, E)
  BY <1>3, TypesAre DEF VoteIn
<1>4. ASSUME e.type # "hostAccess" PROVE AccessIn(l, E \cup {e}) = AccessIn(l, E)
  <2>1. \A h \in Hosts : Access(h, l.access[h]) # e
    BY <1>4, TypesAre
  <2> QED BY <2>1 DEF AccessIn
<1>5. ASSUME e.type # "pairingConsumed" PROVE ConsumedIn(l, E \cup {e}) = ConsumedIn(l, E)
  <2>1. \A t \in Tokens : Pairing(t, l.consumed[t]) # e
    BY <1>5, TypesAre
  <2> QED BY <2>1 DEF ConsumedIn
<1> QED BY <1>1, <1>2, <1>3, <1>4, <1>5

\* The replay of a checkpoint, one event at a time.
LEMMA PartialStep ==
    ASSUME NEW l \in Ledger, NEW E \in SUBSET Saved(l), NEW e \in Saved(l), e \notin E,
           e.type = "revocation" => \A f \in E : f.type # "highWater"
    PROVE  Replayable(Partial(l, E), e) /\ Apply(Partial(l, E), e) = Partial(l, E \cup {e})
<1> DEFINE p == Partial(l, E)
<1>0. /\ p \in Ledger
      /\ p.marks = MarksIn(l, E) /\ p.revoked = RevokedIn(l, E)
      /\ p.vote = VoteIn(l, E) /\ p.access = AccessIn(l, E)
      /\ p.consumed = ConsumedIn(l, E)
  BY PartialIs
<1>a. Partial(l, E \cup {e}) = Cells(MarksIn(l, E \cup {e}), RevokedIn(l, E \cup {e}),
                 VoteIn(l, E \cup {e}), AccessIn(l, E \cup {e}), ConsumedIn(l, E \cup {e}))
  BY DEF Partial
<1> HIDE DEF p
<1>1. CASE e \in HighWaters(l)
  <2>1. PICK h \in Hosts : l.marks[h] # NoMark /\ e = HighWater(h, l.marks[h])
    BY <1>1 DEF HighWaters
  <2>2. l.marks[h] \in Mark /\ e.type = "highWater"
    BY <2>1, LedgerIs, TypesAre
  <2>3. MarksIn(l, E)[h] = NoMark
    BY <2>1 DEF MarksIn
  <2>4. Replayable(p, e)
    <3>1. AppliesHighWaterMark(p, h, l.marks[h])
      BY <1>0, <2>2, <2>3, Bounds DEF AppliesHighWaterMark, NoMark, Mark, Generations
    <3> QED BY <2>1, <2>2, <3>1, FieldsAre DEF Replayable
  <2>5. MarksIn(l, E \cup {e}) = [MarksIn(l, E) EXCEPT ![h] = l.marks[h]]
    <3>1. \A k \in Hosts : k # h => HighWater(k, l.marks[k]) # e
      BY <2>1, FieldsAre
    <3> QED BY <2>1, <3>1 DEF MarksIn
  <2>6. Apply(p, e) = Cells([p.marks EXCEPT ![h] = l.marks[h]], p.revoked, p.vote, p.access, p.consumed)
    BY <1>0, <2>1, <2>2, ApplyIs
  <2> QED BY <1>0, <1>a, <2>2, <2>4, <2>5, <2>6, OthersKept DEF p
<1>2. CASE e \in Revocations(l)
  <2>1. PICK x \in {y \in Hosts \X Generations : l.revoked[y[1]][y[2]] # 0} :
            e = Revocation(x[1], x[2], l.revoked[x[1]][x[2]])
    BY <1>2 DEF Revocations
  <2> DEFINE h == x[1]
             g == x[2]
             r == l.revoked[h][g]
  <2>2. h \in Hosts /\ g \in Generations /\ r \in Generations /\ e = Revocation(h, g, r)
        /\ e.type = "revocation"
    <3>1. h \in Hosts /\ g \in Generations /\ r \in 0..MaxGeneration /\ r # 0
      BY <2>1, LedgerIs
    <3> QED BY <2>1, <3>1, Bounds, TypesAre DEF Generations
  <2> HIDE DEF h, g
  <2>3. \A k \in Hosts : MarksIn(l, E)[k] = NoMark
    BY <2>2, TypesAre DEF MarksIn
  <2>4. RevokedIn(l, E)[h][g] = 0
    BY <2>2 DEF RevokedIn
  <2>5. Replayable(p, e)
    <3>1. AcceptsRevocation(p, h, g, r)
      BY <1>0, <2>2, <2>3, <2>4, Bounds DEF AcceptsRevocation, AcceptedGeneration, NoMark, Generations
    <3>2. e.host = h /\ e.grant = g /\ e.generation = r
      BY <2>2, FieldsAre
    <3> HIDE DEF p
    <3> QED BY <2>2, <3>1, <3>2 DEF Replayable
  <2>6. RevokedIn(l, E \cup {e}) = [RevokedIn(l, E) EXCEPT ![h] = [@ EXCEPT ![g] = r]]
    <3>1. \A k \in Hosts, i \in Generations :
              k # h \/ i # g => Revocation(k, i, l.revoked[k][i]) # e
      BY <2>2, FieldsAre
    <3>2. ASSUME NEW k \in Hosts
          PROVE  RevokedIn(l, E \cup {e})[k]
                     = IF k = h THEN [RevokedIn(l, E)[h] EXCEPT ![g] = r] ELSE RevokedIn(l, E)[k]
      BY <2>2, <3>1 DEF RevokedIn
    <3>3. RevokedIn(l, E \cup {e}) = [k \in Hosts |-> RevokedIn(l, E \cup {e})[k]]
          /\ RevokedIn(l, E) = [k \in Hosts |-> RevokedIn(l, E)[k]]
      BY DEF RevokedIn
    <3> QED BY <2>2, <3>2, <3>3
  <2>7. [MarksIn(l, E) EXCEPT ![h] = Floored(@, g, r)] = MarksIn(l, E)
    <3>1. Floored(NoMark, g, r) = NoMark
      BY <2>2, FlooredIs
    <3>2. MarksIn(l, E) = [k \in Hosts |-> MarksIn(l, E)[k]]
      BY DEF MarksIn
    <3> QED BY <2>2, <2>3, <3>1, <3>2
  <2>8. Apply(p, e) = Cells([p.marks EXCEPT ![h] = Floored(@, g, r)],
                            [p.revoked EXCEPT ![h] = [@ EXCEPT ![g] = r]],
                            p.vote, p.access, p.consumed)
    <3> HIDE DEF r
    <3>1. \A k \in Hosts, i, j \in Generations :
              Apply(p, Revocation(k, i, j))
                  = Cells([p.marks EXCEPT ![k] = Floored(@, i, j)],
                          [p.revoked EXCEPT ![k] = [@ EXCEPT ![i] = j]],
                          p.vote, p.access, p.consumed)
      BY <1>0, ApplyIs, ZenonT(60)
    <3> HIDE DEF p
    <3> QED BY <2>2, <3>1, ZenonT(60)
  <2> QED BY <1>0, <1>a, <2>2, <2>5, <2>6, <2>7, <2>8, OthersKept DEF p
<1>3. CASE e \in Votes(l)
  <2>1. l.vote \in Hosts /\ e = Vote(l.vote) /\ e.type = "promotionVote"
    BY <1>3, LedgerIs, TypesAre DEF Votes
  <2>2. VoteIn(l, E \cup {e}) = l.vote /\ VoteIn(l, E) = Nobody
    BY <2>1 DEF VoteIn
  <2>3. Replayable(p, e)
    BY <1>0, <2>1, <2>2 DEF Replayable
  <2>4. Apply(p, e) = Cells(p.marks, p.revoked, l.vote, p.access, p.consumed)
    BY <1>0, <2>1, ApplyIs
  <2> QED BY <1>0, <1>a, <2>1, <2>2, <2>3, <2>4, OthersKept DEF p
<1>4. CASE e \in Accesses(l)
  <2>1. PICK h \in Hosts : l.access[h] # 0 /\ e = Access(h, l.access[h])
    BY <1>4 DEF Accesses
  <2>2. l.access[h] \in Generations /\ e.type = "hostAccess"
    <3>1. l.access[h] \in 0..MaxGeneration
      BY LedgerIs
    <3> QED BY <2>1, <3>1, Bounds, TypesAre DEF Generations
  <2>3. Replayable(p, e)
    BY <2>2 DEF Replayable
  <2>4. AccessIn(l, E \cup {e}) = [AccessIn(l, E) EXCEPT ![h] = l.access[h]]
    <3>1. \A k \in Hosts : k # h => Access(k, l.access[k]) # e
      BY <2>1, FieldsAre
    <3> QED BY <2>1, <3>1 DEF AccessIn
  <2>5. Apply(p, e) = Cells(p.marks, p.revoked, p.vote, [p.access EXCEPT ![h] = l.access[h]], p.consumed)
    BY <1>0, <2>1, <2>2, ApplyIs
  <2> QED BY <1>0, <1>a, <2>2, <2>3, <2>4, <2>5, OthersKept DEF p
<1>5. CASE e \in Pairings(l)
  <2>1. PICK t \in Tokens : l.consumed[t] # Nobody /\ e = Pairing(t, l.consumed[t])
    BY <1>5 DEF Pairings
  <2>2. l.consumed[t] \in Hosts /\ e.type = "pairingConsumed"
    BY <2>1, LedgerIs, TypesAre
  <2>3. Replayable(p, e)
    BY <2>2 DEF Replayable
  <2>4. ConsumedIn(l, E \cup {e}) = [ConsumedIn(l, E) EXCEPT ![t] = l.consumed[t]]
    <3>1. \A k \in Tokens : k # t => Pairing(k, l.consumed[k]) # e
      BY <2>1, FieldsAre
    <3> QED BY <2>1, <3>1 DEF ConsumedIn
  <2>5. Apply(p, e) = Cells(p.marks, p.revoked, p.vote, p.access, [p.consumed EXCEPT ![t] = l.consumed[t]])
    <3> DEFINE o == l.consumed[t]
    <3>1. o \in Hosts /\ e = Pairing(t, o)
      BY <2>1, <2>2
    <3> HIDE DEF o
    <3>2. Apply(p, Pairing(t, o)) = Cells(p.marks, p.revoked, p.vote, p.access, [p.consumed EXCEPT ![t] = o])
      BY <1>0, <3>1, ApplyIs
    <3> QED BY <3>1, <3>2 DEF o
  <2> QED BY <1>0, <1>a, <2>2, <2>3, <2>4, <2>5, OthersKept DEF p
<1> QED BY <1>1, <1>2, <1>3, <1>4, <1>5 DEF Saved, p

LEMMA PrefixIs ==
    ASSUME NEW es \in Seq(Event), NEW i \in Nat, i < Len(es)
    PROVE  /\ SubSeq(es, 1, 0) = <<>> /\ SubSeq(es, 1, Len(es)) = es
           /\ SubSeq(es, 1, i + 1) = Append(SubSeq(es, 1, i), es[i + 1])
           /\ es[i + 1] \in Event
<1>1. Len(es) \in Nat /\ \A j \in 1..Len(es) : es[j] \in Event
  BY LenProperties, ElementOfSeq
<1>2. es[i + 1] \in Event
  BY <1>1
<1> DEFINE p == SubSeq(es, 1, i)
           q == SubSeq(es, 1, i + 1)
           a == Append(p, es[i + 1])
<1>3. /\ p \in Seq(Event) /\ Len(p) = i /\ (\A j \in 1..i : p[j] = es[j])
      /\ q \in Seq(Event) /\ Len(q) = i + 1 /\ \A j \in 1..(i + 1) : q[j] = es[j]
  BY <1>1, SubSeqProperties
<1>4. a \in Seq(Event) /\ Len(a) = i + 1 /\ (\A j \in 1..i : a[j] = p[j]) /\ a[i + 1] = es[i + 1]
  BY <1>2, <1>3, AppendProperties, SMTT(30)
<1> HIDE DEF p, q, a
<1>5. \A j \in 1..(i + 1) : q[j] = a[j]
  <2>1. \A j \in 1..(i + 1) : j \in 1..i \/ j = i + 1
    OBVIOUS
  <2> QED BY <1>3, <1>4, <2>1
<1>6. q = a
  BY <1>3, <1>4, <1>5, SeqEqual
<1> QED BY <1>2, <1>6, SubSeqEmpty, SubSeqFull DEF p, q, a

\* What maybeCompactState writes is read back as what the bridge remembered.
LEMMA CheckpointRebuilds ==
    ASSUME NEW l \in Ledger
    PROVE  Rebuilds(Checkpoint(l), l)
<1> DEFINE cs == Checkpoint(l)
           n == Len(cs)
           E(i) == {cs[j] : j \in 1..i}
           Good(i) == Rebuilds(SubSeq(cs, 1, i), Partial(l, E(i)))
<1>1. Sorted(cs) /\ ToSet(cs) = Saved(l) /\ cs \in Seq(Event) /\ n \in Nat /\ DOMAIN cs = 1..n
  BY CheckpointIs, LenProperties DEF Sorted
<1>2. \A i \in 1..n : cs[i] \in Saved(l) /\ cs[i] \in Event
  BY <1>1, ElementOfSeq DEF ToSet
<1> HIDE DEF cs, n
<1>3. Good(0)
  <2>1. E(0) = {}
    OBVIOUS
  <2>2. SubSeq(cs, 1, 0) = <<>>
    BY SubSeqEmpty
  <2> QED BY <2>1, <2>2, PartialNothing, RebuildsNothing
<1>4. ASSUME NEW i \in Nat, i < n, Good(i) PROVE Good(i + 1)
  <2> DEFINE e == cs[i + 1]
  <2>1. e \in Saved(l) /\ e \in Event /\ SubSeq(cs, 1, i + 1) = Append(SubSeq(cs, 1, i), e)
    BY <1>1, <1>2, <1>4, PrefixIs DEF n
  <2>2. E(i) \in SUBSET Saved(l)
    BY <1>1, <1>2, <1>4
  <2>3. e \notin E(i) /\ (e.type = "revocation" => \A f \in E(i) : f.type # "highWater")
    <3>1. i + 1 \in 1..Len(cs) /\ \A j \in 1..i : j \in 1..Len(cs) /\ j < i + 1
      BY <1>1, <1>4 DEF n
    <3>2. \A j \in 1..i : e # cs[j] /\ ~(e.type = "revocation" /\ cs[j].type = "highWater")
      BY <1>1, <3>1 DEF Sorted
    <3> QED BY <3>2
  <2>4. E(i + 1) = E(i) \cup {e}
    <3>1. \A j \in 1..(i + 1) : j \in 1..i \/ j = i + 1
      BY <1>4
    <3>2. \A j \in 1..i : j \in 1..(i + 1)
      BY <1>4
    <3>3. i + 1 \in 1..(i + 1)
      BY <1>4
    <3> QED BY <3>1, <3>2, <3>3
  <2> HIDE DEF e, E
  <2>5. Replayable(Partial(l, E(i)), e) /\ Apply(Partial(l, E(i)), e) = Partial(l, E(i + 1))
    BY <2>1, <2>2, <2>3, <2>4, PartialStep
  <2>6. Partial(l, E(i)) \in Ledger
    BY PartialIs
  <2> QED BY <1>4, <2>1, <2>5, <2>6, RebuildsAppend
<1> HIDE DEF Good
<1>5. \A i \in 0..n : Good(i)
  <2> DEFINE bad == {i \in 0..n : ~Good(i)}
  <2> SUFFICES ASSUME bad # {} PROVE FALSE
    OBVIOUS
  <2>1. PICK i \in bad : \A j \in bad : ~(j < i)
    <3>1. bad \subseteq Nat
      BY <1>1
    <3>2. \E i \in bad : \A j \in bad : <<j, i>> \notin OpToRel(<, Nat)
      BY <3>1, WFMin, NatLessThanWellFounded
    <3> QED BY <3>1, <3>2 DEF OpToRel
  <2>2. i # 0 /\ i \in Nat
    BY <1>1, <1>3, <2>1
  <2>3. i - 1 \in 0..n /\ i - 1 < i /\ i - 1 < n /\ (i - 1) + 1 = i /\ i - 1 \in Nat
    BY <1>1, <2>1, <2>2
  <2>4. Good(i - 1)
    BY <2>1, <2>3
  <2>5. Good((i - 1) + 1)
    BY <1>4, <2>3, <2>4
  <2> QED BY <2>1, <2>3, <2>5
<1>6. Good(n)
  BY <1>1, <1>5
<1>7. E(n) = Saved(l)
  BY <1>1 DEF ToSet
<1>8. SubSeq(cs, 1, n) = cs
  BY <1>1, SubSeqFull DEF n
<1> HIDE DEF E
<1>9. Rebuilds(cs, l)
  BY <1>6, <1>7, <1>8, PartialAll DEF Good
<1> QED BY <1>9 DEF cs

-----------------------------------------------------------------------------
(***************************************************************************)
(* What the authority signed, and events that a handler may append.        *)
(***************************************************************************)

\* Entry r of the host revokes grant g.
Signed(h, g, r) == r \in DOMAIN authority[h] /\ g # 0 /\ authority[h][r] = g

AuthorityInv ==
    /\ authority \in [Hosts -> Seq(0..MaxGeneration)]
    /\ \A h \in Hosts :
           /\ Len(authority[h]) \in Generations
           /\ \A g, r \in Generations : Signed(h, g, r) =>
                  /\ g < r /\ g \in Issued(h)
                  /\ \A q \in Generations : Signed(h, g, q) => q = r

LEMMA SignedIs ==
    ASSUME AuthorityInv, NEW h \in Hosts
    PROVE  /\ DOMAIN authority[h] = 1..Len(authority[h]) /\ Len(authority[h]) \in Generations
           /\ DOMAIN authority[h] \subseteq Generations /\ Issued(h) \subseteq DOMAIN authority[h]
           /\ \A g, r : Signed(h, g, r) => g \in Generations /\ r \in Generations
           /\ \A g, r : Signed(h, g, r) => g < r /\ g \in Issued(h) /\ r \notin Issued(h)
           /\ \A g, r, q : Signed(h, g, r) /\ Signed(h, g, q) => q = r
           /\ \A r \in DOMAIN authority[h] \ Issued(h) : Signed(h, RevokedBy(h, r), r)
<1>1. DOMAIN authority[h] = 1..Len(authority[h]) /\ Len(authority[h]) \in Generations
  BY LenProperties DEF AuthorityInv
<1>2. DOMAIN authority[h] \subseteq Generations
  BY <1>1, Bounds DEF Generations
<1>3. \A r \in DOMAIN authority[h] : authority[h][r] \in 0..MaxGeneration
  BY <1>1, ElementOfSeq DEF AuthorityInv
<1>4. \A g, r : Signed(h, g, r) => g \in Generations /\ r \in Generations
  BY <1>2, <1>3, Bounds DEF Signed, Generations
<1>5. \A g, r : Signed(h, g, r) => g < r /\ g \in Issued(h) /\ r \notin Issued(h)
  BY <1>4 DEF AuthorityInv, Signed, Issued
<1>6. \A g, r, q : Signed(h, g, r) /\ Signed(h, g, q) => q = r
  BY <1>4 DEF AuthorityInv
<1> QED BY <1>1, <1>2, <1>4, <1>5, <1>6 DEF Signed, Issued, RevokedBy

\* A mark carries the grant it was registered under, or that grant's revocation.
SignedMark(h, m, revoked) ==
    /\ m.grant \in Issued(h)
    /\ m.generation # m.grant => /\ Signed(h, m.grant, m.generation)
                                 /\ revoked[m.grant] = m.generation

SignedLedger(l) ==
    \A h \in Hosts :
        /\ \A g \in Generations : l.revoked[h][g] # 0 => Signed(h, g, l.revoked[h][g])
        /\ l.marks[h] # NoMark => SignedMark(h, l.marks[h], l.revoked[h])

LegitMark(l, h, m) ==
    /\ m.grant \in Issued(h) /\ m.generation = m.grant
    /\ l.revoked[h][m.grant] = 0
    /\ m.grant >= l.marks[h].generation
    /\ m.grant = l.marks[h].generation => m.grant = l.marks[h].grant
    /\ m.seq > l.marks[h].seq

\* The event follows from what the authority signed and the ledger l remembers.
Legit(l, e) ==
    \/ \E h \in Hosts, m \in Mark : e = HighWater(h, m) /\ LegitMark(l, h, m)
    \/ \E h \in Hosts, g, r \in Generations :
           e = Revocation(h, g, r) /\ Signed(h, g, r) /\ l.revoked[h][g] = 0
    \/ \E h \in Hosts : e = Vote(h) /\ l.vote = Nobody
    \/ \E h \in Hosts, g \in Generations : e = Access(h, g)
    \/ \E t \in Tokens, h \in Hosts : e = Pairing(t, h) /\ l.consumed[t] = Nobody

LEMMA RevokedIs ==
    ASSUME AuthorityInv, NEW l \in Ledger, SignedLedger(l), NEW h \in Hosts, NEW g \in Generations
    PROVE  /\ l.revoked[h][g] \in 0..MaxGeneration
           /\ g <= l.revoked[h][g] <=> l.revoked[h][g] # 0
           /\ \A r : Signed(h, g, r) => l.revoked[h][g] \in {0, r}
<1>1. l.revoked[h][g] \in 0..MaxGeneration
  BY LedgerIs
<1>2. l.revoked[h][g] # 0 => Signed(h, g, l.revoked[h][g])
  BY DEF SignedLedger
<1>3. l.revoked[h][g] # 0 => g < l.revoked[h][g]
  BY <1>2, SignedIs
<1>4. \A r : Signed(h, g, r) => l.revoked[h][g] \in {0, r}
  BY <1>2, SignedIs
<1> QED BY <1>1, <1>3, <1>4, Bounds DEF Generations

LEMMA RevocationIsAccepted ==
    ASSUME AuthorityInv, NEW l \in Ledger, SignedLedger(l), NEW h \in Hosts,
           NEW g, NEW r, Signed(h, g, r)
    PROVE  l.revoked[h][g] = r \/ (l.revoked[h][g] = 0 /\ AcceptsRevocation(l, h, g, r))
<1>1. g \in Generations /\ r \in Generations /\ g < r
  BY SignedIs
<1>2. l.revoked[h][g] \in {0, r}
  BY <1>1, RevokedIs
<1>3. ASSUME l.revoked[h][g] = 0, l.marks[h].grant = g PROVE r > l.marks[h].generation
  <2>1. l.marks[h] # NoMark
    BY <1>1, <1>3 DEF NoMark, Generations
  <2>2. SignedMark(h, l.marks[h], l.revoked[h])
    BY <2>1 DEF SignedLedger
  <2>3. l.marks[h].generation # g => l.marks[h].generation = 0
    BY <1>3, <2>2 DEF SignedMark
  <2> QED BY <1>1, <2>3 DEF Generations
<1> QED BY <1>1, <1>2, <1>3 DEF AcceptsRevocation, AcceptedGeneration, Generations

LEMMA LegitIs ==
    ASSUME AuthorityInv, NEW l \in Ledger, SignedLedger(l), NEW e, Legit(l, e)
    PROVE  e \in Event /\ Replayable(l, e)
<1>1. ASSUME NEW h \in Hosts, NEW m \in Mark, e = HighWater(h, m), LegitMark(l, h, m)
      PROVE  e \in Event /\ Replayable(l, e)
  <2>1. e \in Event /\ e.type = "highWater" /\ e.host = h /\ e.mark = m
    BY <1>1, EventsAre, TypesAre, FieldsAre
  <2>2. AppliesHighWaterMark(l, h, m)
    BY <1>1 DEF LegitMark, AppliesHighWaterMark
  <2> QED BY <2>1, <2>2 DEF Replayable
<1>2. ASSUME NEW h \in Hosts, NEW g \in Generations, NEW r \in Generations,
             e = Revocation(h, g, r), Signed(h, g, r), l.revoked[h][g] = 0
      PROVE  e \in Event /\ Replayable(l, e)
  <2>1. e \in Event /\ e.type = "revocation" /\ e.host = h /\ e.grant = g /\ e.generation = r
    BY <1>2, EventsAre, TypesAre, FieldsAre
  <2>2. e.generation = l.revoked[e.host][e.grant] \/ AcceptsRevocation(l, e.host, e.grant, e.generation)
    BY <1>2, <2>1, RevocationIsAccepted
  <2> QED BY <2>1, <2>2 DEF Replayable
<1>3. ASSUME NEW h \in Hosts, e = Vote(h), l.vote = Nobody PROVE e \in Event /\ Replayable(l, e)
  BY <1>3, EventsAre, TypesAre DEF Replayable
<1>4. ASSUME NEW h \in Hosts, NEW g \in Generations, e = Access(h, g)
      PROVE  e \in Event /\ Replayable(l, e)
  BY <1>4, EventsAre, TypesAre DEF Replayable
<1>5. ASSUME NEW t \in Tokens, NEW h \in Hosts, e = Pairing(t, h)
      PROVE  e \in Event /\ Replayable(l, e)
  BY <1>5, EventsAre, TypesAre DEF Replayable
<1> QED BY <1>1, <1>2, <1>3, <1>4, <1>5 DEF Legit

LEMMA LegitAgrees ==
    ASSUME NEW l, NEW m, Agrees(l, m)
    PROVE  /\ \A e : Legit(l, e) <=> Legit(m, e)
           /\ SignedLedger(l) <=> SignedLedger(m)
BY DEF Agrees, Legit, LegitMark, SignedLedger

\* A legitimate event leaves the ledger one that the authority's entries explain.
LEMMA LegitSigned ==
    ASSUME AuthorityInv, NEW l \in Ledger, SignedLedger(l), NEW e, Legit(l, e)
    PROVE  Apply(l, e) \in Ledger /\ SignedLedger(Apply(l, e))
<1>0. Apply(l, e) \in Ledger
  BY LegitIs, ApplyType
<1> DEFINE n == Apply(l, e)
<1>1. ASSUME NEW h \in Hosts, NEW m \in Mark, e = HighWater(h, m), LegitMark(l, h, m)
      PROVE  SignedLedger(n)
  <2>1. n.marks = [l.marks EXCEPT ![h] = m] /\ n.revoked = l.revoked
    BY <1>1, MarkApplied
  <2>2. \A k \in Hosts : n.marks[k] = IF k = h THEN m ELSE l.marks[k]
    BY <2>1, LedgerIs
  <2>3. SignedMark(h, m, l.revoked[h])
    BY <1>1 DEF LegitMark, SignedMark
  <2> HIDE DEF n
  <2> QED BY <2>1, <2>2, <2>3 DEF SignedLedger
<1>2. ASSUME NEW h \in Hosts, NEW g \in Generations, NEW r \in Generations,
             e = Revocation(h, g, r), Signed(h, g, r), l.revoked[h][g] = 0
      PROVE  SignedLedger(n)
  <2>1. /\ n.marks = [l.marks EXCEPT ![h] = Floored(@, g, r)]
        /\ n.revoked = [l.revoked EXCEPT ![h] = [@ EXCEPT ![g] = r]]
    BY <1>2, RevocationApplied
  <2>2. /\ \A k \in Hosts : n.marks[k] = IF k = h THEN Floored(l.marks[h], g, r) ELSE l.marks[k]
        /\ \A k \in Hosts, i \in Generations :
               n.revoked[k][i] = IF k = h /\ i = g THEN r ELSE l.revoked[k][i]
    BY <2>1, LedgerIs
  <2> HIDE DEF n
  <2>3. \A k \in Hosts, i \in Generations : n.revoked[k][i] # 0 => Signed(k, i, n.revoked[k][i])
    BY <1>2, <2>2 DEF SignedLedger
  <2>4. ASSUME n.marks[h] # NoMark PROVE SignedMark(h, n.marks[h], n.revoked[h])
    <3> DEFINE m == l.marks[h]
               f == Floored(m, g, r)
    <3>1. m \in Mark \cup {NoMark}
      BY LedgerIs
    <3> HIDE DEF m, f
    <3>2. /\ f.grant = m.grant
          /\ f.generation = IF m.grant = g /\ m.generation < r THEN r ELSE m.generation
          /\ m = NoMark => f = NoMark
      BY <3>1, FlooredIs DEF f
    <3>3. m # NoMark /\ n.marks[h] = f
      BY <2>2, <2>4, <3>2 DEF f, m
    <3>4. SignedMark(h, m, l.revoked[h]) /\ m.grant \in Generations
      BY <3>1, <3>3 DEF SignedLedger, m, Mark
    <3>5. CASE m.grant = g
      <4>1. m.generation = g
        BY <1>2, <3>1, <3>3, <3>4, <3>5 DEF SignedMark, Mark, Generations
      <4>2. f.generation = r
        BY <1>2, <3>2, <3>5, <4>1, SignedIs
      <4> QED BY <1>2, <2>2, <3>2, <3>3, <3>4, <3>5, <4>2 DEF SignedMark
    <3>6. CASE m.grant # g
      BY <2>2, <3>2, <3>3, <3>4, <3>6 DEF SignedMark
    <3> QED BY <3>5, <3>6
  <2>5. ASSUME NEW k \in Hosts, k # h, n.marks[k] # NoMark
        PROVE  SignedMark(k, n.marks[k], n.revoked[k])
    <3>1. n.marks[k] = l.marks[k] /\ SignedMark(k, l.marks[k], l.revoked[k]) /\ l.marks[k] \in Mark
      BY <2>2, <2>5, LedgerIs DEF SignedLedger
    <3>2. n.revoked[k][l.marks[k].grant] = l.revoked[k][l.marks[k].grant]
      BY <2>2, <2>5, <3>1 DEF Mark
    <3> QED BY <3>1, <3>2 DEF SignedMark
  <2> QED BY <2>3, <2>4, <2>5 DEF SignedLedger
<1>3. ASSUME NEW h \in Hosts, e = Vote(h) PROVE SignedLedger(n)
  <2>1. n.marks = l.marks /\ n.revoked = l.revoked
    BY <1>3, VoteApplied
  <2> HIDE DEF n
  <2> QED BY <2>1 DEF SignedLedger
<1>4. ASSUME NEW h \in Hosts, NEW g \in Generations, e = Access(h, g) PROVE SignedLedger(n)
  <2>1. n.marks = l.marks /\ n.revoked = l.revoked
    BY <1>4, AccessApplied
  <2> HIDE DEF n
  <2> QED BY <2>1 DEF SignedLedger
<1>5. ASSUME NEW t \in Tokens, NEW h \in Hosts, e = Pairing(t, h) PROVE SignedLedger(n)
  <2>1. n.marks = l.marks /\ n.revoked = l.revoked
    BY <1>5, PairingApplied
  <2> HIDE DEF n
  <2> QED BY <2>1 DEF SignedLedger
<1>6. SignedLedger(n)
  <2> HIDE DEF n
  <2> QED BY <1>1, <1>2, <1>3, <1>4, <1>5 DEF Legit
<1> QED BY <1>0, <1>6

-----------------------------------------------------------------------------
(***************************************************************************)
(* What the lines of a file tell.                                          *)
(***************************************************************************)
Told(lines) == {line.event : line \in {x \in ToSet(lines) : x.status = "whole"}}

\* Some event of E put the mark m there, floored since or not.
MarkIn(E, h, m) ==
    \E e \in E : /\ e.type = "highWater" /\ e.host = h
                 /\ e.mark.seq = m.seq /\ e.mark.grant = m.grant

RecordedIn(E, l) ==
    /\ l.vote # Nobody => Vote(l.vote) \in E
    /\ \A t \in Tokens : l.consumed[t] # Nobody => Pairing(t, l.consumed[t]) \in E
    /\ \A h \in Hosts :
           /\ \A g \in Generations :
                  l.revoked[h][g] = 0 \/ Revocation(h, g, l.revoked[h][g]) \in E
           /\ l.marks[h] = NoMark \/ MarkIn(E, h, l.marks[h])

LEMMA ToldAppend ==
    ASSUME NEW lines \in Seq(Whole), NEW x \in Whole
    PROVE  Told(Append(lines, x)) = Told(lines) \cup {x.event}
<1>1. ToSet(Append(lines, x)) = ToSet(lines) \cup {x}
  <2> DEFINE a == Append(lines, x)
             n == Len(lines)
  <2>1. /\ n \in Nat /\ DOMAIN lines = 1..n /\ DOMAIN a = 1..(n + 1)
        /\ \A i \in 1..n : a[i] = lines[i]
        /\ a[n + 1] = x
    BY LenProperties, AppendProperties
  <2> HIDE DEF a, n
  <2>2. ToSet(a) = {a[i] : i \in 1..(n + 1)} /\ ToSet(lines) = {lines[i] : i \in 1..n}
    BY <2>1 DEF ToSet
  <2>3. \A i \in 1..(n + 1) : i \in 1..n \/ i = n + 1
    BY <2>1
  <2>4. (\A i \in 1..n : i \in 1..(n + 1)) /\ n + 1 \in 1..(n + 1)
    BY <2>1
  <2> QED BY <2>1, <2>2, <2>3, <2>4 DEF a
<1>2. x.status = "whole"
  BY DEF Whole
<1> QED BY <1>1, <1>2 DEF Told

LEMMA ToldFileOf ==
    ASSUME NEW es \in Seq(Event)
    PROVE  Told(FileOf(es)) = ToSet(es)
<1> DEFINE n == Len(es)
           f == FileOf(es)
<1>1. /\ n \in Nat /\ f \in Seq(Whole) /\ Len(f) = n /\ DOMAIN es = 1..n /\ DOMAIN f = 1..n
  BY FileOfIs, LenProperties
<1>2. \A i \in 1..n : f[i].event = es[i] /\ f[i].status = "whole"
  <2>1. \A i \in 1..n : f[i] = Line(SubSeq(es, 1, i - 1), es[i], "whole")
    BY FileOfIs
  <2>2. \A p, e : Line(p, e, "whole").event = e /\ Line(p, e, "whole").status = "whole"
    BY DEF Line
  <2> HIDE DEF f
  <2> QED BY <2>1, <2>2
<1> HIDE DEF n, f
<1>3. ToSet(f) = {f[i] : i \in 1..n} /\ ToSet(es) = {es[i] : i \in 1..n}
  BY <1>1 DEF ToSet
<1> QED BY <1>2, <1>3 DEF Told, f

LEMMA RecordedMore ==
    ASSUME NEW E, NEW F, E \subseteq F, NEW l, NEW m, RecordedIn(E, l), Agrees(l, m)
    PROVE  RecordedIn(F, m)
BY DEF RecordedIn, MarkIn, Agrees

LEMMA RecordedNothing == \A E : RecordedIn(E, EmptyLedger)
BY DEF RecordedIn, EmptyLedger

LEMMA RecordedSaved ==
    ASSUME NEW l \in Ledger
    PROVE  RecordedIn(Saved(l), l)
<1>1. l.vote # Nobody => Vote(l.vote) \in Saved(l)
  BY DEF Saved, Votes
<1>2. \A t \in Tokens : l.consumed[t] # Nobody => Pairing(t, l.consumed[t]) \in Saved(l)
  BY DEF Saved, Pairings
<1>3. ASSUME NEW h \in Hosts, NEW g \in Generations, l.revoked[h][g] # 0
      PROVE  Revocation(h, g, l.revoked[h][g]) \in Saved(l)
  <2> DEFINE x == <<h, g>>
  <2>1. x \in {y \in Hosts \X Generations : l.revoked[y[1]][y[2]] # 0}
    BY <1>3
  <2>2. Revocation(x[1], x[2], l.revoked[x[1]][x[2]]) \in Revocations(l)
    BY <2>1 DEF Revocations
  <2> QED BY <2>2 DEF Saved
<1>4. ASSUME NEW h \in Hosts, l.marks[h] # NoMark PROVE MarkIn(Saved(l), h, l.marks[h])
  <2>1. HighWater(h, l.marks[h]) \in Saved(l)
    BY <1>4 DEF Saved, HighWaters
  <2> QED BY <2>1, TypesAre, FieldsAre DEF MarkIn
<1> QED BY <1>1, <1>2, <1>3, <1>4 DEF RecordedIn

LEMMA RecordedApply ==
    ASSUME NEW l \in Ledger, NEW e \in Event, NEW E, RecordedIn(E, l)
    PROVE  RecordedIn(E \cup {e}, Apply(l, e))
<1> DEFINE F == E \cup {e}
           n == Apply(l, e)
<1>0. RecordedIn(F, l)
  BY RecordedMore DEF Agrees
<1>1. ASSUME NEW h \in Hosts, NEW m \in Mark, e = HighWater(h, m) PROVE RecordedIn(F, n)
  <2>1. /\ n.marks = [l.marks EXCEPT ![h] = m] /\ n.revoked = l.revoked
        /\ n.vote = l.vote /\ n.consumed = l.consumed
    BY <1>1, MarkApplied
  <2>2. \A k \in Hosts : n.marks[k] = IF k = h THEN m ELSE l.marks[k]
    BY <2>1, LedgerIs
  <2>3. MarkIn(F, h, m)
    BY <1>1, TypesAre, FieldsAre DEF MarkIn
  <2> HIDE DEF F, n
  <2> QED BY <1>0, <2>1, <2>2, <2>3 DEF RecordedIn
<1>2. ASSUME NEW h \in Hosts, NEW g \in Generations, NEW r \in Generations, e = Revocation(h, g, r)
      PROVE  RecordedIn(F, n)
  <2>1. /\ n.marks = [l.marks EXCEPT ![h] = Floored(@, g, r)]
        /\ n.revoked = [l.revoked EXCEPT ![h] = [@ EXCEPT ![g] = r]]
        /\ n.vote = l.vote /\ n.consumed = l.consumed
    BY <1>2, RevocationApplied
  <2>2. /\ \A k \in Hosts : n.marks[k] = IF k = h THEN Floored(l.marks[h], g, r) ELSE l.marks[k]
        /\ \A k \in Hosts, i \in Generations :
               n.revoked[k][i] = IF k = h /\ i = g THEN r ELSE l.revoked[k][i]
    BY <2>1, LedgerIs
  <2>3. ASSUME NEW k \in Hosts PROVE n.marks[k] = NoMark \/ MarkIn(F, k, n.marks[k])
    <3>1. l.marks[k] \in Mark \cup {NoMark} /\ (l.marks[k] = NoMark \/ MarkIn(F, k, l.marks[k]))
      BY <1>0, LedgerIs DEF RecordedIn
    <3>2. /\ Floored(l.marks[k], g, r).seq = l.marks[k].seq
          /\ Floored(l.marks[k], g, r).grant = l.marks[k].grant
          /\ l.marks[k] = NoMark => Floored(l.marks[k], g, r) = NoMark
      BY <3>1, FlooredIs
    <3> HIDE DEF F, n
    <3> QED BY <2>2, <3>1, <3>2 DEF MarkIn
  <2>4. Revocation(h, g, r) \in F
    BY <1>2
  <2> HIDE DEF F, n
  <2> QED BY <1>0, <2>1, <2>2, <2>3, <2>4 DEF RecordedIn
<1>3. ASSUME NEW h \in Hosts, e = Vote(h) PROVE RecordedIn(F, n)
  <2>1. n.marks = l.marks /\ n.revoked = l.revoked /\ n.vote = h /\ n.consumed = l.consumed
    BY <1>3, VoteApplied
  <2>2. Vote(h) \in F
    BY <1>3
  <2> HIDE DEF F, n
  <2> QED BY <1>0, <2>1, <2>2 DEF RecordedIn
<1>4. ASSUME NEW h \in Hosts, NEW g \in Generations, e = Access(h, g) PROVE RecordedIn(F, n)
  <2>1. n.marks = l.marks /\ n.revoked = l.revoked /\ n.vote = l.vote /\ n.consumed = l.consumed
    BY <1>4, AccessApplied, ZenonT(60)
  <2> HIDE DEF F, n
  <2> QED BY <1>0, <2>1 DEF RecordedIn
<1>5. ASSUME NEW t \in Tokens, NEW h \in Hosts, e = Pairing(t, h) PROVE RecordedIn(F, n)
  <2>1. /\ n.marks = l.marks /\ n.revoked = l.revoked /\ n.vote = l.vote
        /\ n.consumed = [l.consumed EXCEPT ![t] = h]
    BY <1>5, PairingApplied
  <2>2. \A k \in Tokens : n.consumed[k] = IF k = t THEN h ELSE l.consumed[k]
    BY <2>1, LedgerIs
  <2>3. Pairing(t, h) \in F
    BY <1>5
  <2> HIDE DEF F, n
  <2> QED BY <1>0, <2>1, <2>2, <2>3 DEF RecordedIn
<1>6. RecordedIn(F, n)
  <2> HIDE DEF F, n
  <2> QED BY <1>1, <1>2, <1>3, <1>4, <1>5, EventIs
<1> QED BY <1>6

-----------------------------------------------------------------------------
(***************************************************************************)
(* A file, the chain and the ledger it stands for, and how they move.      *)
(***************************************************************************)
Sound(lines, chain, l) ==
    /\ lines \in Seq(Whole) /\ chain \in Seq(Event) /\ l \in Ledger
    /\ SignedLedger(l)
    /\ RecordedIn(Told(lines), l)

InStep(lines, chain, l) == lines = FileOf(chain) /\ Rebuilds(chain, l)

\* The last line is there, but its fsync threw and nothing was answered.
Ahead(lines, chain, l) ==
    \E e : /\ Legit(l, e)
           /\ lines = FileOf(Append(chain, e)) /\ Rebuilds(chain, l)

Kept(lines, chain, l) ==
    /\ Sound(lines, chain, l)
    /\ InStep(lines, chain, l) \/ Ahead(lines, chain, l) \/ Unreadable(lines)

LEMMA LineAppended ==
    ASSUME AuthorityInv, NEW lines, NEW chain, NEW l, Sound(lines, chain, l), NEW e, Legit(l, e)
    PROVE  /\ Line(chain, e, "whole") \in Whole
           /\ AppendLine(lines, Line(chain, e, "whole")) = Append(lines, Line(chain, e, "whole"))
           /\ Append(lines, Line(chain, e, "whole")) \in Seq(Whole)
           /\ Told(Append(lines, Line(chain, e, "whole"))) = Told(lines) \cup {e}
           /\ Recovered(AppendLine(lines, Line(chain, e, "torn"))) = lines
           /\ Recovered(lines) = lines
<1>1. e \in Event /\ lines \in Seq(Whole) /\ chain \in Seq(Event)
  BY LegitIs DEF Sound
<1> DEFINE x == Line(chain, e, "whole")
           y == Line(chain, e, "torn")
<1>2. x \in Whole /\ x.event = e
  BY <1>1, LineIs
<1>3. Recovered(Append(lines, y)) = lines
  BY <1>1, TornIsDropped
<1> HIDE DEF x, y
<1>4. AppendLine(lines, x) = Append(lines, x) /\ AppendLine(lines, y) = Append(lines, y)
      /\ Recovered(lines) = lines
  BY <1>1, WholeFile
<1>5. Append(lines, x) \in Seq(Whole) /\ Told(Append(lines, x)) = Told(lines) \cup {e}
  BY <1>1, <1>2, AppendProperties, ToldAppend
<1> QED BY <1>2, <1>3, <1>4, <1>5 DEF x, y

\* An append that returns.
LEMMA RecordKept ==
    ASSUME AuthorityInv, NEW lines, NEW chain, NEW l, Sound(lines, chain, l), NEW e, Legit(l, e),
           NEW f, f = Record([lines |-> lines, chain |-> chain, ledger |-> l], e, "whole")
    PROVE  /\ f = [lines |-> f.lines, chain |-> f.chain, ledger |-> f.ledger]
           /\ f.ledger = Apply(l, e)
           /\ Sound(f.lines, f.chain, f.ledger)
           /\ Told(lines) \subseteq Told(f.lines)
           /\ InStep(lines, chain, l) => InStep(f.lines, f.chain, f.ledger)
           /\ Ahead(lines, chain, l) \/ Unreadable(lines) => Unreadable(f.lines)
<1> DEFINE x == Line(chain, e, "whole")
<1>1. e \in Event /\ Replayable(l, e)
  BY LegitIs DEF Sound
<1>2. /\ x \in Whole /\ AppendLine(lines, x) = Append(lines, x) /\ Append(lines, x) \in Seq(Whole)
      /\ Told(Append(lines, x)) = Told(lines) \cup {e}
  BY LineAppended
<1>3. /\ f = [lines |-> AppendLine(lines, x), chain |-> Append(chain, e), ledger |-> Apply(l, e)]
  BY DEF Record
<1> HIDE DEF x
<1>4. /\ f.lines = Append(lines, x) /\ f.chain = Append(chain, e) /\ f.ledger = Apply(l, e)
      /\ f = [lines |-> f.lines, chain |-> f.chain, ledger |-> f.ledger]
  BY <1>2, <1>3
<1>5. Sound(f.lines, f.chain, f.ledger)
  <2>1. Apply(l, e) \in Ledger /\ SignedLedger(Apply(l, e))
    BY LegitSigned DEF Sound
  <2>2. RecordedIn(Told(lines) \cup {e}, Apply(l, e))
    BY <1>1, RecordedApply DEF Sound
  <2>3. Append(chain, e) \in Seq(Event)
    BY <1>1, AppendProperties DEF Sound
  <2> QED BY <1>2, <1>4, <2>1, <2>2, <2>3 DEF Sound
<1>6. ASSUME InStep(lines, chain, l) PROVE InStep(f.lines, f.chain, f.ledger)
  <2>1. Rebuilds(Append(chain, e), Apply(l, e))
    BY <1>1, <1>6, RebuildsAppend DEF InStep, Sound
  <2>2. FileOf(Append(chain, e)) = Append(FileOf(chain), x)
    BY <1>1, FileOfAppend DEF Sound, x
  <2> QED BY <1>4, <1>6, <2>1, <2>2 DEF InStep
<1>7. ASSUME Ahead(lines, chain, l) PROVE Unreadable(f.lines)
  <2>1. PICK d : /\ Legit(l, d)
                 /\ lines = FileOf(Append(chain, d)) /\ Rebuilds(chain, l)
    BY <1>7 DEF Ahead
  <2>2. d \in Event
    BY <2>1, LegitIs DEF Sound
  <2>3. Unreadable(Append(FileOf(Append(chain, d)), x))
    BY <1>1, <2>1, <2>2, SkippedLine DEF Sound, x
  <2> QED BY <1>4, <2>1, <2>3
<1>8. ASSUME Unreadable(lines) PROVE Unreadable(f.lines)
  BY <1>2, <1>4, <1>8, UnreadableAppend
<1> QED BY <1>2, <1>4, <1>5, <1>6, <1>7, <1>8

\* An append whose fsync throws.
LEMMA LeftBehind ==
    ASSUME AuthorityInv, NEW lines, NEW chain, NEW l, Kept(lines, chain, l), NEW e, Legit(l, e)
    PROVE  Kept(AppendLine(lines, Line(chain, e, "whole")), chain, l)
<1> DEFINE x == Line(chain, e, "whole")
           a == AppendLine(lines, x)
<1>0. Sound(lines, chain, l)
  BY DEF Kept
<1>1. e \in Event
  BY <1>0, LegitIs DEF Sound
<1>2. /\ x \in Whole /\ a = Append(lines, x) /\ Append(lines, x) \in Seq(Whole)
      /\ Told(Append(lines, x)) = Told(lines) \cup {e}
  BY <1>0, LineAppended
<1> HIDE DEF x, a
<1>3. Sound(a, chain, l)
  <2>1. RecordedIn(Told(lines) \cup {e}, l)
    BY <1>0, RecordedMore DEF Sound, Agrees
  <2> QED BY <1>0, <1>2, <2>1 DEF Sound
<1>4. ASSUME InStep(lines, chain, l) PROVE Ahead(a, chain, l)
  <2>1. FileOf(Append(chain, e)) = Append(FileOf(chain), x)
    BY <1>0, <1>1, FileOfAppend DEF Sound, x
  <2> QED BY <1>2, <1>4, <2>1 DEF InStep, Ahead
<1>5. ASSUME Ahead(lines, chain, l) PROVE Unreadable(a)
  <2>1. PICK d : /\ Legit(l, d)
                 /\ lines = FileOf(Append(chain, d)) /\ Rebuilds(chain, l)
    BY <1>5 DEF Ahead
  <2>2. d \in Event
    BY <1>0, <2>1, LegitIs DEF Sound
  <2>3. Unreadable(Append(FileOf(Append(chain, d)), x))
    BY <1>0, <1>1, <2>1, <2>2, SkippedLine DEF Sound, x
  <2> QED BY <1>2, <2>1, <2>3
<1>6. ASSUME Unreadable(lines) PROVE Unreadable(a)
  BY <1>2, <1>6, UnreadableAppend
<1>7. Kept(a, chain, l)
  BY <1>3, <1>4, <1>5, <1>6 DEF Kept
<1> QED BY <1>7 DEF a, x

\* A compaction.
LEMMA CompactionKept ==
    ASSUME NEW l \in Ledger, SignedLedger(l)
    PROVE  /\ Sound(FileOf(Checkpoint(l)), Checkpoint(l), l)
           /\ InStep(FileOf(Checkpoint(l)), Checkpoint(l), l)
<1>1. Checkpoint(l) \in Seq(Event) /\ ToSet(Checkpoint(l)) = Saved(l)
  BY CheckpointIs DEF Sorted
<1>2. FileOf(Checkpoint(l)) \in Seq(Whole) /\ Told(FileOf(Checkpoint(l))) = Saved(l)
  BY <1>1, FileOfIs, ToldFileOf
<1>3. RecordedIn(Saved(l), l)
  BY RecordedSaved
<1> QED BY <1>1, <1>2, <1>3, CheckpointRebuilds DEF Sound, InStep

\* A restart: the file as the crash left it, without a torn last line.
LEMMA Reloaded ==
    ASSUME AuthorityInv, NEW lines, NEW chain, NEW l, Kept(lines, chain, l),
           NEW raw, Recovered(raw) = lines, NEW s, s = Replay(raw)
    PROVE  /\ s.ok \in BOOLEAN
           /\ s.ok => Sound(lines, s.head, s.ledger) /\ InStep(lines, s.head, s.ledger)
           /\ InStep(lines, chain, l) => s.ok /\ Agrees(l, s.ledger)
           /\ Ahead(lines, chain, l) => \E e : Legit(l, e) /\ Agrees(Apply(l, e), s.ledger)
           /\ Unreadable(lines) => ~s.ok
<1>0. lines \in Seq(Whole) /\ chain \in Seq(Event) /\ l \in Ledger /\ SignedLedger(l)
      /\ RecordedIn(Told(lines), l)
  BY DEF Kept, Sound
<1>1. ASSUME NEW es \in Seq(Event), NEW k \in Ledger, lines = FileOf(es), Rebuilds(es, k),
             SignedLedger(k), RecordedIn(Told(lines), k)
      PROVE  /\ s.ok = TRUE /\ Agrees(k, s.ledger)
             /\ Sound(lines, s.head, s.ledger) /\ InStep(lines, s.head, s.ledger)
  <2>1. PICK m \in Ledger : /\ Recalls(m, k) /\ Rebuilds(es, m)
                            /\ \A x : Recovered(x) = FileOf(es) => Replay(x) = Read(m, es)
    BY <1>1, RebuildsReplays
  <2>2. s = Read(m, es)
    BY <1>1, <2>1
  <2>3. s.ok = TRUE /\ s.ledger = m /\ s.head = es
    BY <2>2 DEF Read
  <2>4. Agrees(k, m)
    BY <2>1 DEF Recalls, Agrees
  <2>5. SignedLedger(m) /\ RecordedIn(Told(lines), m)
    BY <1>1, <2>4, LegitAgrees, RecordedMore
  <2> QED BY <1>0, <1>1, <2>1, <2>3, <2>4, <2>5 DEF Sound, InStep
<1>2. ASSUME InStep(lines, chain, l)
      PROVE  /\ s.ok = TRUE /\ Agrees(l, s.ledger)
             /\ Sound(lines, s.head, s.ledger) /\ InStep(lines, s.head, s.ledger)
  BY <1>0, <1>1, <1>2 DEF InStep
<1>3. ASSUME Ahead(lines, chain, l)
      PROVE  /\ s.ok = TRUE /\ \E e : Legit(l, e) /\ Agrees(Apply(l, e), s.ledger)
             /\ Sound(lines, s.head, s.ledger) /\ InStep(lines, s.head, s.ledger)
  <2>1. PICK e : /\ Legit(l, e)
                 /\ lines = FileOf(Append(chain, e)) /\ Rebuilds(chain, l)
    BY <1>3 DEF Ahead
  <2>2. e \in Event /\ Replayable(l, e) /\ Apply(l, e) \in Ledger /\ SignedLedger(Apply(l, e))
    BY <1>0, <2>1, LegitIs, LegitSigned
  <2>3. Append(chain, e) \in Seq(Event) /\ e \in ToSet(Append(chain, e))
    <3>1. /\ Append(chain, e) \in Seq(Event) /\ Len(Append(chain, e)) = Len(chain) + 1
          /\ Append(chain, e)[Len(chain) + 1] = e
      BY <1>0, <2>2, AppendProperties
    <3>2. Len(chain) + 1 \in DOMAIN Append(chain, e)
      BY <1>0, <3>1, LenProperties
    <3> QED BY <3>1, <3>2 DEF ToSet
  <2>4. Rebuilds(Append(chain, e), Apply(l, e))
    BY <1>0, <2>1, <2>2, RebuildsAppend
  <2>5. RecordedIn(Told(lines), Apply(l, e))
    <3>1. RecordedIn(Told(lines) \cup {e}, Apply(l, e))
      BY <1>0, <2>2, RecordedApply
    <3>2. Told(lines) = ToSet(Append(chain, e))
      BY <2>1, <2>3, ToldFileOf
    <3>3. Told(lines) \cup {e} = Told(lines)
      BY <2>3, <3>2
    <3> QED BY <3>1, <3>3
  <2> QED BY <1>1, <2>1, <2>2, <2>3, <2>4, <2>5
<1>4. ASSUME Unreadable(lines) PROVE s.ok = FALSE
  <2>1. PICK x \in States : Replays(lines, x) /\ ~x.ok
    BY <1>4 DEF Unreadable
  <2>2. s = x
    BY <1>0, <2>1, ReplaysGives
  <2> QED BY <2>1, <2>2 DEF States
<1> QED BY <1>2, <1>3, <1>4 DEF Kept

-----------------------------------------------------------------------------
(***************************************************************************)
(* The outcomes of a handler.                                              *)
(***************************************************************************)

\* What a handler may append.
EventsOK(es) ==
    \/ es = <<>>
    \/ \E e : Legit(ledger, e) /\ es = <<e>>
    \/ \E t \in Tokens, h \in Hosts, g \in Generations :
           ledger.consumed[t] = Nobody /\ es = <<Pairing(t, h), Access(h, g)>>

\* The ledger moves by at most one event, but for credentials.
Moves(l, m) == Agrees(l, m) \/ \E e : Legit(l, e) /\ Agrees(Apply(l, e), m)

LEMMA EventsOKIs ==
    ASSUME NEW es, EventsOK(es)
    PROVE  /\ Len(es) \in 0..2 /\ (Len(es) = 0 <=> es = <<>>)
           /\ Len(es) > 0 => Legit(ledger, es[1])
           /\ Len(es) = 2 => \A l : Legit(l, es[2])
           /\ Len(es) = 2 => \E h \in Hosts, g \in Generations : es[2] = Access(h, g)
<1>1. CASE es = <<>>
  BY <1>1
<1>2. ASSUME NEW e, Legit(ledger, e), es = <<e>> PROVE Len(es) = 1 /\ Legit(ledger, es[1]) /\ es # <<>>
  BY <1>2
<1>3. ASSUME NEW t \in Tokens, NEW h \in Hosts, NEW g \in Generations,
             ledger.consumed[t] = Nobody, es = <<Pairing(t, h), Access(h, g)>>
      PROVE  /\ Len(es) = 2 /\ es # <<>> /\ Legit(ledger, es[1])
             /\ es[2] = Access(h, g) /\ \A l : Legit(l, es[2])
  <2>1. Len(es) = 2 /\ es # <<>> /\ es[1] = Pairing(t, h) /\ es[2] = Access(h, g)
    BY <1>3
  <2>2. Legit(ledger, Pairing(t, h))
    BY <1>3 DEF Legit
  <2>3. \A l : Legit(l, Access(h, g))
    BY DEF Legit
  <2> QED BY <2>1, <2>2, <2>3
<1> QED BY <1>1, <1>2, <1>3 DEF EventsOK

\* After the first k appends.
LEMMA PrefixKept ==
    ASSUME AuthorityInv, Kept(log, head, ledger), NEW es, EventsOK(es), NEW k \in 0..Len(es),
           NEW f, f = Written(es, k, 0)
    PROVE  /\ Kept(f.lines, f.chain, f.ledger)
           /\ Told(log) \subseteq Told(f.lines)
           /\ InStep(log, head, ledger) => InStep(f.lines, f.chain, f.ledger)
           /\ k = 0 => f.lines = log /\ f.chain = head /\ f.ledger = ledger
           /\ k > 0 /\ ~InStep(log, head, ledger) => Unreadable(f.lines)
           /\ k = 1 => f.ledger = Apply(ledger, es[1])
           /\ k > 0 => Agrees(Apply(ledger, es[1]), f.ledger)
           /\ k < Len(es) => Legit(f.ledger, es[k + 1])
<1> DEFINE f0 == [lines |-> log, chain |-> head, ledger |-> ledger]
           f1 == Record(f0, es[1], "whole")
           f2 == Record(f1, es[2], "whole")
<1>0. /\ Len(es) \in 0..2
      /\ Len(es) > 0 => Legit(ledger, es[1])
      /\ Len(es) = 2 => \A l : Legit(l, es[2])
      /\ Len(es) = 2 => \E h \in Hosts, g \in Generations : es[2] = Access(h, g)
  BY EventsOKIs
<1>1. Written(es, 0, 0) = f0 /\ Written(es, 1, 0) = f1 /\ Written(es, 2, 0) = f2
  <2>1. f0 = [lines |-> log, chain |-> head, ledger |-> ledger]
    OBVIOUS
  <2>2. f1 = Record(f0, es[1], IF 1 = 0 THEN "torn" ELSE "whole")
    OBVIOUS
  <2>3. f2 = Record(f1, es[2], IF 2 = 0 THEN "torn" ELSE "whole")
    OBVIOUS
  <2> HIDE DEF f0, f1, f2
  <2> QED BY <2>1, <2>2, <2>3, WrittenIs
<1>2. f0.lines = log /\ f0.chain = head /\ f0.ledger = ledger
  OBVIOUS
<1>3. ASSUME Len(es) > 0
      PROVE  /\ f1 = [lines |-> f1.lines, chain |-> f1.chain, ledger |-> f1.ledger]
             /\ f1.ledger = Apply(ledger, es[1])
             /\ Sound(f1.lines, f1.chain, f1.ledger) /\ Told(log) \subseteq Told(f1.lines)
             /\ InStep(log, head, ledger) => InStep(f1.lines, f1.chain, f1.ledger)
             /\ ~InStep(log, head, ledger) => Unreadable(f1.lines)
  <2>1. Sound(log, head, ledger) /\ Legit(ledger, es[1])
        /\ (InStep(log, head, ledger) \/ Ahead(log, head, ledger) \/ Unreadable(log))
    BY <1>0, <1>3 DEF Kept
  <2>2. f1 = Record([lines |-> log, chain |-> head, ledger |-> ledger], es[1], "whole")
    OBVIOUS
  <2> HIDE DEF f1
  <2>3. /\ f1 = [lines |-> f1.lines, chain |-> f1.chain, ledger |-> f1.ledger]
        /\ f1.ledger = Apply(ledger, es[1])
        /\ Sound(f1.lines, f1.chain, f1.ledger) /\ Told(log) \subseteq Told(f1.lines)
        /\ InStep(log, head, ledger) => InStep(f1.lines, f1.chain, f1.ledger)
        /\ Ahead(log, head, ledger) \/ Unreadable(log) => Unreadable(f1.lines)
    BY <2>1, <2>2, RecordKept
  <2> QED BY <2>1, <2>3
<1>4. ASSUME Len(es) = 2
      PROVE  /\ f2.ledger = Apply(f1.ledger, es[2])
             /\ Sound(f2.lines, f2.chain, f2.ledger) /\ Told(f1.lines) \subseteq Told(f2.lines)
             /\ InStep(f1.lines, f1.chain, f1.ledger) => InStep(f2.lines, f2.chain, f2.ledger)
             /\ Unreadable(f1.lines) => Unreadable(f2.lines)
             /\ Agrees(f1.ledger, f2.ledger)
  <2>1. Sound(f1.lines, f1.chain, f1.ledger) /\ Legit(f1.ledger, es[2])
    BY <1>0, <1>3, <1>4
  <2>2. f1 = [lines |-> f1.lines, chain |-> f1.chain, ledger |-> f1.ledger]
    BY <1>3, <1>4
  <2> HIDE DEF f1
  <2>3. f2 = Record([lines |-> f1.lines, chain |-> f1.chain, ledger |-> f1.ledger], es[2], "whole")
    BY <2>2
  <2> HIDE DEF f2
  <2>4. /\ f2.ledger = Apply(f1.ledger, es[2])
        /\ Sound(f2.lines, f2.chain, f2.ledger) /\ Told(f1.lines) \subseteq Told(f2.lines)
        /\ InStep(f1.lines, f1.chain, f1.ledger) => InStep(f2.lines, f2.chain, f2.ledger)
        /\ Unreadable(f1.lines) => Unreadable(f2.lines)
    BY <2>1, <2>3, RecordKept
  <2>5. Agrees(f1.ledger, f2.ledger)
    <3>1. PICK h \in Hosts, g \in Generations : es[2] = Access(h, g)
      BY <1>0, <1>4
    <3>2. f1.ledger \in Ledger
      BY <2>1 DEF Sound
    <3> DEFINE q == f1.ledger
    <3> HIDE DEF q
    <3>3. q \in Ledger
      BY <3>2 DEF q
    <3>4. Agrees(q, Apply(q, Access(h, g)))
      BY <3>3, AccessApplied DEF Agrees
    <3> QED BY <2>4, <3>1, <3>4 DEF q
  <2> QED BY <2>4, <2>5
<1> HIDE DEF f1, f2
<1>5. CASE k = 0
  BY <1>0, <1>1, <1>2, <1>5
<1>6. CASE k = 1
  <2>1. f = f1 /\ Len(es) > 0
    BY <1>0, <1>1, <1>6
  <2>2. Agrees(f1.ledger, f1.ledger)
    BY DEF Agrees
  <2>3. k < Len(es) => Legit(f.ledger, es[k + 1])
    BY <1>0, <1>6
  <2> QED BY <1>3, <1>6, <2>1, <2>2, <2>3 DEF Kept
<1>7. CASE k = 2
  <2>1. f = f2 /\ Len(es) = 2 /\ Len(es) > 0
    BY <1>0, <1>1, <1>7
  <2>2. Kept(f.lines, f.chain, f.ledger)
    BY <1>3, <1>4, <2>1 DEF Kept
  <2> QED BY <1>3, <1>4, <1>7, <2>1, <2>2
<1>8. k = 0 \/ k = 1 \/ k = 2
  <2> DEFINE n == Len(es)
  <2>1. n \in 0..2 /\ k \in 0..n
    BY <1>0
  <2> HIDE DEF n
  <2> QED BY <2>1
<1> QED BY <1>5, <1>6, <1>7, <1>8

\* No append writes a part of its line without noticing.
NoShortWrites == \A b \in FaultBudgets : b.short = 0

Faults == [crash: Nat, error: Nat, short: Nat]

LEMMA NotShort ==
    ASSUME NoShortWrites, NEW f \in Faults, Tolerated([f EXCEPT !.short = @ + 1])
    PROVE  FALSE
<1>1. PICK b \in FaultBudgets : [f EXCEPT !.short = @ + 1].short <= b.short
  BY DEF Tolerated
<1>2. b.short = 0
  BY DEF NoShortWrites
<1>3. [f EXCEPT !.short = @ + 1].short = f.short + 1 /\ f.short \in Nat
  BY DEF Faults
<1> QED BY <1>1, <1>2, <1>3

\* All appends returned.
LEMMA PersistKept ==
    ASSUME AuthorityInv, Kept(log, head, ledger), NoShortWrites, faults \in Faults,
           NEW es, EventsOK(es), Persist(es)
    PROVE  /\ Kept(log', head', ledger') /\ faults' = faults
           /\ InStep(log, head, ledger) => InStep(log', head', ledger')
           /\ Told(log) \subseteq Told(log') \/ es # <<>>
           /\ es = <<>> => ledger' = ledger
           /\ es # <<>> => Legit(ledger, es[1]) /\ Agrees(Apply(ledger, es[1]), ledger')
           /\ Len(es) = 1 => ledger' = Apply(ledger, es[1])
<1>0. /\ Len(es) \in 0..2 /\ (Len(es) = 0 <=> es = <<>>)
      /\ Len(es) > 0 => Legit(ledger, es[1])
  BY EventsOKIs
<1>1. PICK short \in 0..Len(es) :
        LET f == Written(es, Len(es), short)
        IN  /\ faults' = IF short = 0 THEN faults ELSE [faults EXCEPT !.short = @ + 1]
            /\ Tolerated(faults')
            /\ ledger' = f.ledger
            /\ IF es # <<>> /\ Len(f.chain) >= CompactAt
               THEN log' = FileOf(Checkpoint(f.ledger)) /\ head' = Checkpoint(f.ledger)
               ELSE log' = f.lines /\ head' = f.chain
  BY DEF Persist
<1>2. short = 0
  BY <1>1, NotShort
<1> DEFINE f == Written(es, Len(es), 0)
<1>3. /\ faults' = faults /\ ledger' = f.ledger
      /\ \/ log' = f.lines /\ head' = f.chain
         \/ es # <<>> /\ log' = FileOf(Checkpoint(f.ledger)) /\ head' = Checkpoint(f.ledger)
  BY <1>1, <1>2
<1>4. Len(es) \in 0..Len(es) /\ f = Written(es, Len(es), 0)
  <2> DEFINE n == Len(es)
  <2>1. n \in 0..2
    BY <1>0
  <2> HIDE DEF n
  <2>2. n \in 0..n
    BY <2>1
  <2> QED BY <2>2 DEF n
<1> HIDE DEF f
<1>5. /\ Kept(f.lines, f.chain, f.ledger)
      /\ Told(log) \subseteq Told(f.lines)
      /\ InStep(log, head, ledger) => InStep(f.lines, f.chain, f.ledger)
      /\ Len(es) = 0 => f.lines = log /\ f.chain = head /\ f.ledger = ledger
      /\ Len(es) = 1 => f.ledger = Apply(ledger, es[1])
      /\ Len(es) > 0 => Agrees(Apply(ledger, es[1]), f.ledger)
  BY <1>4, PrefixKept
<1>6. CASE log' = f.lines /\ head' = f.chain
  BY <1>0, <1>3, <1>5, <1>6
<1>7. CASE es # <<>> /\ log' = FileOf(Checkpoint(f.ledger)) /\ head' = Checkpoint(f.ledger)
  <2>1. f.ledger \in Ledger /\ SignedLedger(f.ledger)
    BY <1>5 DEF Kept, Sound
  <2>2. Sound(log', head', ledger') /\ InStep(log', head', ledger')
    BY <1>3, <1>7, <2>1, CompactionKept
  <2> QED BY <1>0, <1>3, <1>5, <1>7, <2>2 DEF Kept
<1> QED BY <1>3, <1>6, <1>7

\* An append threw.
LEMMA FailKept ==
    ASSUME AuthorityInv, Kept(log, head, ledger), faults \in Faults,
           NEW es, EventsOK(es), FailToPersist(es)
    PROVE  /\ Kept(log', head', ledger') /\ faults' \in Faults /\ faults'.error # 0
           /\ es # <<>> /\ Legit(ledger, es[1])
           /\ ledger' = ledger \/ Agrees(Apply(ledger, es[1]), ledger')
           /\ Len(es) = 1 => ledger' = ledger
<1>0. /\ Len(es) \in 0..2 /\ (Len(es) = 0 <=> es = <<>>)
      /\ Len(es) > 0 => Legit(ledger, es[1])
  BY EventsOKIs
<1>1. faults' \in Faults /\ faults'.error # 0
  BY DEF FailToPersist, Faults
<1>2. PICK k \in 0..(Len(es) - 1) :
         LET f == Written(es, k, 0)
         IN  /\ ledger' = f.ledger
             /\ head' = f.chain
             /\ log' \in {f.lines, AppendLine(f.lines, Line(f.chain, es[k + 1], "whole"))}
  BY DEF FailToPersist
<1> DEFINE f == Written(es, k, 0)
<1>3. k \in 0..Len(es) /\ k < Len(es) /\ Len(es) > 0 /\ (Len(es) = 1 => k = 0) /\ (k = 0 \/ k > 0)
  <2> DEFINE n == Len(es)
  <2>1. n \in 0..2 /\ k \in 0..(n - 1)
    BY <1>0
  <2> HIDE DEF n
  <2>2. k \in 0..n /\ k < n /\ n > 0 /\ (n = 1 => k = 0) /\ (k = 0 \/ k > 0)
    BY <2>1
  <2> QED BY <2>2 DEF n
<1>4. /\ ledger' = f.ledger /\ head' = f.chain
      /\ log' = f.lines \/ log' = AppendLine(f.lines, Line(f.chain, es[k + 1], "whole"))
  BY <1>2
<1>5. f = Written(es, k, 0)
  OBVIOUS
<1> HIDE DEF f
<1>6. /\ Kept(f.lines, f.chain, f.ledger)
      /\ k = 0 => f.ledger = ledger
      /\ k > 0 => Agrees(Apply(ledger, es[1]), f.ledger)
      /\ Legit(f.ledger, es[k + 1])
  BY <1>3, <1>5, PrefixKept
<1>7. Kept(AppendLine(f.lines, Line(f.chain, es[k + 1], "whole")), f.chain, f.ledger)
  BY <1>6, LeftBehind
<1>8. Kept(log', head', ledger')
  BY <1>4, <1>6, <1>7
<1> QED BY <1>0, <1>1, <1>3, <1>4, <1>6, <1>8

\* The process died and was started again.
LEMMA CrashKept ==
    ASSUME AuthorityInv, Kept(log, head, ledger), faults \in Faults,
           NEW es, EventsOK(es), CrashDuring(es)
    PROVE  /\ Sound(log', head', ledger') /\ faults' \in Faults /\ faults'.error = faults.error
           /\ running' \in BOOLEAN
           /\ running' => InStep(log', head', ledger')
           /\ InStep(log, head, ledger) => running'
           /\ Moves(ledger, ledger')
<1>0. /\ Len(es) \in 0..2 /\ (Len(es) = 0 <=> es = <<>>)
      /\ Len(es) > 0 => Legit(ledger, es[1])
  BY EventsOKIs
<1>1. faults' \in Faults /\ faults'.error = faults.error
  BY DEF CrashDuring, Faults
<1>2. PICK k \in 0..Len(es) :
         LET f == Written(es, k, 0)
             torn == IF k = Len(es) THEN {}
                     ELSE {AppendLine(f.lines, Line(f.chain, es[k + 1], "torn"))}
         IN \E lines \in {f.lines} \cup torn :
                LET s == Replay(lines)
                IN  /\ log' = Recovered(lines)
                    /\ running' = s.ok
                    /\ ledger' = IF s.ok THEN s.ledger ELSE ledger
                    /\ head' = IF s.ok THEN s.head ELSE head
  BY DEF CrashDuring
<1> DEFINE f == Written(es, k, 0)
<1>3. PICK raw :
        /\ \/ raw = f.lines
           \/ k # Len(es) /\ raw = AppendLine(f.lines, Line(f.chain, es[k + 1], "torn"))
        /\ log' = Recovered(raw)
        /\ running' = Replay(raw).ok
        /\ ledger' = IF Replay(raw).ok THEN Replay(raw).ledger ELSE ledger
        /\ head' = IF Replay(raw).ok THEN Replay(raw).head ELSE head
  BY <1>2
<1>4. (k # Len(es) => k < Len(es)) /\ (k = 0 \/ k > 0)
      /\ (k > 0 => Len(es) > 0)
  <2> DEFINE n == Len(es)
  <2>1. n \in 0..2 /\ k \in 0..n
    BY <1>0
  <2> HIDE DEF n
  <2>2. (k # n => k < n) /\ (k = 0 \/ k > 0) /\ (k > 0 => n > 0)
    BY <2>1
  <2> QED BY <2>2 DEF n
<1>5. f = Written(es, k, 0)
  OBVIOUS
<1> HIDE DEF f
<1>6. /\ Kept(f.lines, f.chain, f.ledger)
      /\ Told(log) \subseteq Told(f.lines)
      /\ InStep(log, head, ledger) => InStep(f.lines, f.chain, f.ledger)
      /\ k = 0 => f.lines = log /\ f.chain = head /\ f.ledger = ledger
      /\ k > 0 /\ ~InStep(log, head, ledger) => Unreadable(f.lines)
      /\ k > 0 => Agrees(Apply(ledger, es[1]), f.ledger)
      /\ k < Len(es) => Legit(f.ledger, es[k + 1])
  BY <1>5, PrefixKept
<1>7. Recovered(raw) = f.lines
  <2>1. Sound(f.lines, f.chain, f.ledger)
    BY <1>6 DEF Kept
  <2>2. CASE raw = f.lines
    <3>1. Recovered(f.lines) = f.lines
      BY <2>1, WholeFile DEF Sound
    <3> QED BY <2>2, <3>1
  <2>3. CASE k # Len(es) /\ raw = AppendLine(f.lines, Line(f.chain, es[k + 1], "torn"))
    <3>1. Legit(f.ledger, es[k + 1])
      BY <1>4, <1>6, <2>3
    <3> QED BY <2>1, <2>3, <3>1, LineAppended
  <2> QED BY <1>3, <2>2, <2>3
<1> DEFINE s == Replay(raw)
<1>8. /\ log' = f.lines /\ running' = s.ok
      /\ ledger' = IF s.ok THEN s.ledger ELSE ledger
      /\ head' = IF s.ok THEN s.head ELSE head
  BY <1>3, <1>7
<1>9. s = Replay(raw)
  OBVIOUS
<1> HIDE DEF s
<1>10. /\ s.ok \in BOOLEAN
       /\ s.ok => Sound(f.lines, s.head, s.ledger) /\ InStep(f.lines, s.head, s.ledger)
       /\ InStep(f.lines, f.chain, f.ledger) => s.ok /\ Agrees(f.ledger, s.ledger)
       /\ Ahead(f.lines, f.chain, f.ledger)
              => \E e : Legit(f.ledger, e) /\ Agrees(Apply(f.ledger, e), s.ledger)
       /\ Unreadable(f.lines) => ~s.ok
  BY <1>6, <1>7, <1>9, Reloaded
<1>11. Sound(log, head, ledger)
  BY DEF Kept
<1>12. CASE ~s.ok
  <2>1. RecordedIn(Told(f.lines), ledger)
    BY <1>6, <1>11, RecordedMore DEF Sound, Agrees
  <2>2. f.lines \in Seq(Whole)
    BY <1>6 DEF Kept, Sound
  <2>3. ~InStep(log, head, ledger)
    BY <1>6, <1>10, <1>12
  <2>4. Sound(log', head', ledger')
    BY <1>8, <1>11, <1>12, <2>1, <2>2 DEF Sound
  <2>5. Moves(ledger, ledger')
    BY <1>8, <1>12 DEF Moves, Agrees
  <2> QED BY <1>1, <1>8, <1>10, <1>12, <2>3, <2>4, <2>5
<1>13. CASE s.ok
  <2>1. Sound(log', head', ledger') /\ InStep(log', head', ledger')
    BY <1>8, <1>10, <1>13
  <2>2. ~Unreadable(f.lines)
    BY <1>10, <1>13
  <2>3. Moves(ledger, s.ledger)
    <3>1. CASE k = 0
      <4>1. f.ledger = ledger /\ (InStep(f.lines, f.chain, f.ledger) \/ Ahead(f.lines, f.chain, f.ledger))
        BY <1>6, <2>2, <3>1 DEF Kept
      <4> QED BY <1>10, <4>1 DEF Moves
    <3>2. CASE k > 0
      <4>1. InStep(f.lines, f.chain, f.ledger) /\ Agrees(Apply(ledger, es[1]), f.ledger)
            /\ Legit(ledger, es[1])
        BY <1>0, <1>4, <1>6, <2>2, <3>2
      <4>2. Agrees(Apply(ledger, es[1]), s.ledger)
        BY <1>10, <4>1 DEF Agrees
      <4> QED BY <4>1, <4>2 DEF Moves
    <3> QED BY <1>4, <3>1, <3>2
  <2> QED BY <1>1, <1>8, <1>10, <1>13, <2>1, <2>3
<1> QED BY <1>12, <1>13

-----------------------------------------------------------------------------
(***************************************************************************)
(* The invariant.                                                          *)
(***************************************************************************)
FileInv ==
    /\ Sound(log, head, ledger)
    /\ running => Kept(log, head, ledger)
    /\ running /\ faults.error = 0 => InStep(log, head, ledger)
    /\ running \in BOOLEAN /\ faults \in Faults

SocketInv ==
    /\ pending \in [Hosts -> Registration \cup {NoRegistration}]
    /\ \A h \in Hosts : pending[h] # NoRegistration => pending[h].grant \in Issued(h)
    /\ listed \in [Hosts -> 0..MaxGeneration]
    /\ bound \in [Hosts -> 0..MaxGeneration]
    /\ RevokedAreOut

LedgerInv == AuthorityInv /\ SocketInv /\ FileInv

\* What was signed stays signed.
Grown ==
    \A h \in Hosts : \A r \in DOMAIN authority[h] :
        r \in DOMAIN authority'[h] /\ authority'[h][r] = authority[h][r]

LEMMA GrownKept ==
    ASSUME Grown
    PROVE  /\ Sound(log', head', ledger') => Sound(log, head, ledger)'
           /\ InStep(log', head', ledger') => InStep(log, head, ledger)'
           /\ Kept(log', head', ledger') => Kept(log, head, ledger)'
<1>1. ASSUME Sound(log', head', ledger') PROVE Sound(log, head, ledger)'
  <2>1. SignedLedger(ledger)'
    BY <1>1 DEF Grown, Sound, SignedLedger, SignedMark, Signed, Issued
  <2> QED BY <1>1, <2>1 DEF Sound
<1>2. ASSUME InStep(log', head', ledger') PROVE InStep(log, head, ledger)'
  BY <1>2 DEF InStep
<1>3. ASSUME Ahead(log', head', ledger') PROVE Ahead(log, head, ledger)'
  <2>1. PICK e : /\ Legit(ledger', e)
                 /\ log' = FileOf(Append(head', e)) /\ Rebuilds(head', ledger')
    BY <1>3 DEF Ahead
  <2>2. Legit(ledger, e)'
    BY <2>1 DEF Grown, Legit, LegitMark, Signed, Issued
  <2> QED BY <2>1, <2>2 DEF Ahead
<1> QED BY <1>1, <1>2, <1>3 DEF Kept

LEMMA AuthoritySame ==
    ASSUME AuthorityInv, authority' = authority
    PROVE  AuthorityInv' /\ Grown /\ \A h : Issued(h)' = Issued(h)
BY DEF AuthorityInv, Grown, Issued, Signed

\* The file after a handler that neither signs nor restarts.
LEMMA FileKept ==
    ASSUME LedgerInv, running, authority' = authority, running' = running,
           Kept(log', head', ledger'), faults' \in Faults,
           faults'.error = 0 => /\ faults.error = 0
                                /\ InStep(log, head, ledger) => InStep(log', head', ledger')
    PROVE  AuthorityInv' /\ FileInv'
<1>1. AuthorityInv' /\ Grown
  BY AuthoritySame DEF LedgerInv
<1>2. Kept(log, head, ledger)' /\ Sound(log, head, ledger)'
      /\ (faults'.error = 0 => InStep(log, head, ledger)')
  BY <1>1, GrownKept DEF Kept, LedgerInv, FileInv
<1> QED BY <1>1, <1>2 DEF LedgerInv, FileInv

\* The sockets after a step that leaves the revocations and the registrations.
LEMMA SocketsKept ==
    ASSUME LedgerInv, authority' = authority, pending' = pending, listed' = listed,
           bound' = bound, ledger'.revoked = ledger.revoked
    PROVE  SocketInv'
<1>1. \A h : Issued(h)' = Issued(h)
  BY AuthoritySame DEF LedgerInv
<1> QED BY <1>1 DEF LedgerInv, SocketInv, RevokedAreOut, IsRevoked

LEMMA AgreesKept ==
    ASSUME LedgerInv, NEW l \in Ledger, Recalls(ledger, l), running
    PROVE  Kept(log, head, l) /\ (InStep(log, head, ledger) => InStep(log, head, l))
<1>1. Sound(log, head, ledger) /\ Kept(log, head, ledger)
  BY DEF LedgerInv, FileInv
<1>2. SignedLedger(l) /\ RecordedIn(Told(log), l) /\ \A e : Legit(l, e) <=> Legit(ledger, e)
  <2>1. Agrees(ledger, l)
    BY DEF Recalls
  <2> QED BY <1>1, <2>1, LegitAgrees, RecordedMore DEF Sound
<1>3. Rebuilds(head, ledger) => Rebuilds(head, l)
  BY <1>1, RebuildsRecalls DEF Sound
<1> QED BY <1>1, <1>2, <1>3 DEF Kept, Sound, InStep, Ahead

-----------------------------------------------------------------------------
(***************************************************************************)
(* Each action keeps the invariant and moves the ledger by one event.      *)
(***************************************************************************)
Preserved == LedgerInv' /\ Moves(ledger, ledger')

LEMMA NotRevoked ==
    ASSUME LedgerInv, NEW h \in Hosts, NEW g \in Generations
    PROVE  ~IsRevoked(h, g) <=> ledger.revoked[h][g] = 0
BY RevokedIs DEF LedgerInv, FileInv, Sound, IsRevoked

LEMMA SignGrantKept ==
    ASSUME LedgerInv, NEW h \in Hosts, SignGrant(h)
    PROVE  Preserved
<1> DEFINE s == authority[h]
           a == Append(s, 0)
           n == Len(s)
<1>1. /\ authority' = [authority EXCEPT ![h] = a]
      /\ n < MaxSigned[h]
      /\ UNCHANGED <<log, head, ledger, pending, listed, bound, running, faults>>
  BY DEF SignGrant, fileVars, volatileVars
<1>2. /\ s \in Seq(0..MaxGeneration) /\ n \in Generations /\ MaxSigned[h] \in 0..MaxGeneration
      /\ DOMAIN s = 1..n /\ n \in Nat
  BY LedgerAssumption, LenProperties DEF LedgerInv, AuthorityInv
<1>3. /\ a \in Seq(0..MaxGeneration) /\ Len(a) = n + 1 /\ DOMAIN a = 1..(n + 1)
      /\ (\A i \in 1..n : a[i] = s[i]) /\ a[n + 1] = 0
  BY <1>2, Bounds, AppendProperties, LenProperties
<1>4. n + 1 \in Generations
  BY <1>1, <1>2, Bounds DEF Generations
<1> HIDE DEF s, a, n
<1>5. \A k \in Hosts : authority'[k] = IF k = h THEN a ELSE authority[k]
  BY <1>1 DEF LedgerInv, AuthorityInv
<1>6. Grown
  <2>1. \A r \in DOMAIN s : r \in DOMAIN a /\ a[r] = s[r]
    BY <1>2, <1>3
  <2> QED BY <1>5, <2>1 DEF Grown, s
<1>7. \A k \in Hosts : \A g, r : Signed(k, g, r)' <=> Signed(k, g, r)
  <2>1. \A g, r : g # 0 => (r \in DOMAIN a /\ a[r] = g <=> r \in DOMAIN s /\ s[r] = g)
    <3>1. \A r \in DOMAIN a : r \in DOMAIN s \/ r = n + 1
      BY <1>2, <1>3
    <3>2. \A r \in DOMAIN s : r \in DOMAIN a
      BY <1>2, <1>3
    <3> QED BY <1>2, <1>3, <3>1, <3>2
  <2> QED BY <1>5, <2>1 DEF Signed, s
<1>8. AuthorityInv'
  <2>1. authority' \in [Hosts -> Seq(0..MaxGeneration)]
    BY <1>1, <1>3 DEF LedgerInv, AuthorityInv
  <2>2. \A k \in Hosts : Len(authority'[k]) \in Generations
    BY <1>3, <1>4, <1>5 DEF LedgerInv, AuthorityInv
  <2>3. \A k \in Hosts : \A g \in Issued(k) : g \in Issued(k)'
    BY <1>6 DEF Grown, Issued
  <2> QED BY <1>7, <2>1, <2>2, <2>3 DEF LedgerInv, AuthorityInv
<1>9. FileInv'
  <2>1. Sound(log', head', ledger') /\ (running' => Kept(log', head', ledger'))
        /\ (running' /\ faults'.error = 0 => InStep(log', head', ledger'))
    BY <1>1 DEF LedgerInv, FileInv
  <2> QED BY <1>1, <1>6, <2>1, GrownKept DEF LedgerInv, FileInv
<1>10. SocketInv'
  <2>1. \A k \in Hosts : \A g \in Issued(k) : g \in Issued(k)'
    BY <1>6 DEF Grown, Issued
  <2> QED BY <1>1, <2>1 DEF LedgerInv, SocketInv, RevokedAreOut, IsRevoked
<1> QED BY <1>1, <1>8, <1>9, <1>10 DEF Preserved, LedgerInv, Moves, Agrees

LEMMA SignRevocationKept ==
    ASSUME LedgerInv, NEW h \in Hosts, NEW g \in Generations, SignRevocation(h, g)
    PROVE  Preserved
<1> DEFINE s == authority[h]
           a == Append(s, g)
           n == Len(s)
<1>1. /\ authority' = [authority EXCEPT ![h] = a]
      /\ n < MaxSigned[h]
      /\ g \in Issued(h) /\ \A r \in DOMAIN s : s[r] # g
      /\ UNCHANGED <<log, head, ledger, pending, listed, bound, running, faults>>
  BY DEF SignRevocation, RevokedBy, fileVars, volatileVars
<1>2. /\ s \in Seq(0..MaxGeneration) /\ n \in Generations /\ MaxSigned[h] \in 0..MaxGeneration
      /\ DOMAIN s = 1..n /\ n \in Nat
  BY LedgerAssumption, LenProperties DEF LedgerInv, AuthorityInv
<1>3. /\ a \in Seq(0..MaxGeneration) /\ Len(a) = n + 1 /\ DOMAIN a = 1..(n + 1)
      /\ (\A i \in 1..n : a[i] = s[i]) /\ a[n + 1] = g
  <2>1. g \in 0..MaxGeneration
    BY Bounds DEF Generations
  <2> QED BY <1>2, <2>1, AppendProperties, LenProperties
<1>4. n + 1 \in Generations /\ g < n + 1
  <2>1. g \in 1..n
    BY <1>1, <1>2 DEF Issued, s
  <2> QED BY <1>1, <1>2, <2>1, Bounds DEF Generations
<1> HIDE DEF s, a, n
<1>5. \A k \in Hosts : authority'[k] = IF k = h THEN a ELSE authority[k]
  BY <1>1 DEF LedgerInv, AuthorityInv
<1>6. Grown
  <2>1. \A r \in DOMAIN s : r \in DOMAIN a /\ a[r] = s[r]
    BY <1>2, <1>3
  <2> QED BY <1>5, <2>1 DEF Grown, s
<1>7. \A k \in Hosts : \A i, r :
          Signed(k, i, r)' <=> Signed(k, i, r) \/ (k = h /\ i = g /\ r = n + 1)
  <2>1. \A i, r : (r \in DOMAIN a /\ i # 0 /\ a[r] = i)
                     <=> ((r \in DOMAIN s /\ i # 0 /\ s[r] = i) \/ (i = g /\ r = n + 1))
    <3>1. \A r \in DOMAIN a : r \in DOMAIN s \/ r = n + 1
      BY <1>2, <1>3
    <3>2. (\A r \in DOMAIN s : r \in DOMAIN a) /\ n + 1 \in DOMAIN a /\ g # 0
      BY <1>2, <1>3 DEF Generations
    <3> QED BY <1>2, <1>3, <3>1, <3>2
  <2> QED BY <1>5, <2>1 DEF Signed, s
<1>8. AuthorityInv'
  <2>1. authority' \in [Hosts -> Seq(0..MaxGeneration)]
    BY <1>1, <1>3 DEF LedgerInv, AuthorityInv
  <2>2. \A k \in Hosts : Len(authority'[k]) \in Generations
    BY <1>3, <1>4, <1>5 DEF LedgerInv, AuthorityInv
  <2>3. \A k \in Hosts : \A i \in Issued(k) : i \in Issued(k)'
    BY <1>6 DEF Grown, Issued
  <2>4. \A r : ~Signed(h, g, r)
    BY <1>1 DEF Signed, s
  <2>5. ASSUME NEW k \in Hosts, NEW i \in Generations, NEW r \in Generations, Signed(k, i, r)'
        PROVE  i < r /\ i \in Issued(k)' /\ \A q \in Generations : Signed(k, i, q)' => q = r
    <3>1. CASE k = h /\ i = g
      BY <1>1, <1>4, <1>7, <2>3, <2>4, <2>5, <3>1
    <3>2. CASE ~(k = h /\ i = g)
      BY <1>7, <2>3, <2>5, <3>2 DEF LedgerInv, AuthorityInv
    <3> QED BY <3>1, <3>2
  <2> QED BY <2>1, <2>2, <2>5 DEF AuthorityInv
<1>9. FileInv'
  <2>1. Sound(log', head', ledger') /\ (running' => Kept(log', head', ledger'))
        /\ (running' /\ faults'.error = 0 => InStep(log', head', ledger'))
    BY <1>1 DEF LedgerInv, FileInv
  <2> QED BY <1>1, <1>6, <2>1, GrownKept DEF LedgerInv, FileInv
<1>10. SocketInv'
  <2>1. \A k \in Hosts : \A i \in Issued(k) : i \in Issued(k)'
    BY <1>6 DEF Grown, Issued
  <2> QED BY <1>1, <2>1 DEF LedgerInv, SocketInv, RevokedAreOut, IsRevoked
<1> QED BY <1>1, <1>8, <1>9, <1>10 DEF Preserved, LedgerInv, Moves, Agrees

LEMMA AccessEventsOK ==
    ASSUME LedgerInv, NEW h \in Hosts, NEW g \in Generations, NEW t \in Tokens,
           MayIssueAccess(h, g, t)
    PROVE  /\ EventsOK(AccessEvents(h, g, t)) /\ AccessEvents(h, g, t) # <<>>
           /\ \/ AccessEvents(h, g, t)[1] = Access(h, g)
              \/ AccessEvents(h, g, t)[1] = Pairing(t, h)
<1>1. CASE ScopeEstablished(h)
  <2>1. AccessEvents(h, g, t) = <<Access(h, g)>>
    BY <1>1 DEF AccessEvents
  <2>2. Legit(ledger, Access(h, g))
    BY DEF Legit
  <2> QED BY <2>1, <2>2 DEF EventsOK
<1>2. CASE ~ScopeEstablished(h)
  <2>1. AccessEvents(h, g, t) = <<Pairing(t, h), Access(h, g)>>
    <3>1. ASSUME NEW x, NEW y PROVE <<x>> \o <<y>> = <<x, y>>
      <4>1. <<x>> \in Seq({x, y}) /\ y \in {x, y}
        OBVIOUS
      <4>2. Append(<<x>>, y) = <<x>> \o <<y>>
        BY <4>1, AppendIsConcat
      <4>3. Append(<<x>>, y) = <<x, y>>
        <5> DEFINE a == Append(<<x>>, y)
                   b == <<x, y>>
        <5>1. Len(<<x>>) = 1 /\ <<x>>[1] = x
          OBVIOUS
        <5>2. a \in Seq({x, y}) /\ Len(a) = 2 /\ a[1] = x /\ a[2] = y
          BY <4>1, <5>1, AppendProperties
        <5>3. b \in Seq({x, y}) /\ Len(b) = 2 /\ b[1] = x /\ b[2] = y
          OBVIOUS
        <5> HIDE DEF a, b
        <5>4. \A i \in 1..2 : i = 1 \/ i = 2
          OBVIOUS
        <5>5. \A i \in 1..2 : a[i] = b[i]
          BY <5>2, <5>3, <5>4
        <5>6. a = b
          BY <5>2, <5>3, <5>5, SeqEqual
        <5> QED BY <5>6 DEF a, b
      <4> QED BY <4>2, <4>3
    <3>2. AccessEvents(h, g, t) = <<Pairing(t, h)>> \o <<Access(h, g)>>
      BY <1>2 DEF AccessEvents
    <3> QED BY <3>1, <3>2
  <2>2. ledger.consumed[t] = Nobody
    BY <1>2 DEF MayIssueAccess
  <2> QED BY <2>1, <2>2 DEF EventsOK
<1> QED BY <1>1, <1>2

LEMMA CommitEventsOK ==
    ASSUME LedgerInv, NEW h \in Hosts, pending[h] # NoRegistration,
           ValidateRegistration(h, pending[h])
    PROVE  /\ EventsOK(CommitEvents(h, pending[h]))
           /\ \/ CommitEvents(h, pending[h]) = <<>>
              \/ \E m \in Mark : /\ CommitEvents(h, pending[h])[1] = HighWater(h, m)
                                 /\ Len(CommitEvents(h, pending[h])) = 1
           /\ pending[h].grant \in Generations /\ ~IsRevoked(h, pending[h].grant)
<1> DEFINE r == pending[h]
           m == [seq |-> r.seq, grant |-> r.grant, generation |-> r.grant]
<1>1. r \in Registration /\ r.grant \in Issued(h)
  BY DEF LedgerInv, SocketInv
<1>2. m \in Mark /\ r.grant \in Generations
  BY <1>1 DEF Registration, Mark
<1>3. ~IsRevoked(h, r.grant)
  BY DEF ValidateRegistration
<1>4. CASE ledger.marks[h].seq = r.seq
  <2>1. CommitEvents(h, r) = <<>>
    BY <1>4 DEF CommitEvents
  <2> QED BY <1>2, <1>3, <2>1 DEF EventsOK
<1>5. CASE ledger.marks[h].seq # r.seq
  <2>1. CommitEvents(h, r) = <<HighWater(h, m)>>
    BY <1>5 DEF CommitEvents
  <2>2. ledger.revoked[h][r.grant] = 0
    BY <1>2, <1>3, NotRevoked
  <2>3. ledger.marks[h].seq \in Nat /\ r.seq > ledger.marks[h].seq
    <3>1. ledger.marks[h] \in Mark \cup {NoMark}
      BY LedgerIs DEF LedgerInv, FileInv, Sound
    <3>2. ledger.marks[h].seq \in Nat
      BY <3>1, Bounds DEF Mark, NoMark
    <3> QED BY <1>5, <3>2 DEF ValidateRegistration
  <2>4. LegitMark(ledger, h, m)
    BY <1>1, <2>2, <2>3 DEF LegitMark, ValidateRegistration
  <2>5. Legit(ledger, HighWater(h, m))
    BY <1>2, <2>4 DEF Legit
  <2> HIDE DEF m
  <2> QED BY <1>2, <1>3, <2>1, <2>5 DEF EventsOK
<1> QED BY <1>4, <1>5

LEMMA RevocationOK ==
    ASSUME LedgerInv, NEW h \in Hosts, NEW r, r \in DOMAIN authority[h] \ Issued(h),
           AcceptsRevocation(ledger, h, RevokedBy(h, r), r)
    PROVE  /\ EventsOK(<<Revocation(h, RevokedBy(h, r), r)>>)
           /\ RevokedBy(h, r) \in Generations /\ r \in Generations
<1> DEFINE g == RevokedBy(h, r)
<1>1. Signed(h, g, r) /\ g \in Generations /\ r \in Generations
  BY SignedIs DEF LedgerInv
<1>2. ledger.revoked[h][g] = 0
  <2>1. ledger.revoked[h][g] \in {0, r}
    BY <1>1, RevokedIs DEF LedgerInv, FileInv, Sound
  <2>2. r > ledger.revoked[h][g]
    BY DEF AcceptsRevocation
  <2> QED BY <1>1, <2>1, <2>2 DEF Generations
<1> HIDE DEF g
<1>3. Legit(ledger, Revocation(h, g, r))
  BY <1>1, <1>2 DEF Legit
<1>4. EventsOK(<<Revocation(h, g, r)>>)
  BY <1>3 DEF EventsOK
<1> QED BY <1>1, <1>4 DEF g

LEMMA VoteOK ==
    ASSUME NEW c \in Hosts, ledger.vote = Nobody
    PROVE  EventsOK(<<Vote(c)>>)
<1>1. Legit(ledger, Vote(c))
  BY DEF Legit
<1> QED BY <1>1 DEF EventsOK

\* A handler whose appends returned, or one of whose appends threw.
LEMMA HandlerKept ==
    ASSUME LedgerInv, NoShortWrites, running, NEW es, EventsOK(es),
           Persist(es) \/ FailToPersist(es), authority' = authority, running' = running
    PROVE  /\ AuthorityInv' /\ FileInv' /\ Moves(ledger, ledger')
           /\ \/ ledger' = ledger
              \/ es # <<>> /\ Legit(ledger, es[1]) /\ Agrees(Apply(ledger, es[1]), ledger')
           /\ Len(es) = 1 /\ Persist(es) => ledger' = Apply(ledger, es[1])
           /\ Len(es) = 1 /\ FailToPersist(es) => ledger' = ledger
<1>0. /\ AuthorityInv /\ Kept(log, head, ledger) /\ faults \in Faults
      /\ faults.error = 0 => InStep(log, head, ledger)
  BY DEF LedgerInv, FileInv
<1>1. CASE Persist(es)
  <2>1. /\ Kept(log', head', ledger') /\ faults' = faults
        /\ InStep(log, head, ledger) => InStep(log', head', ledger')
        /\ es = <<>> => ledger' = ledger
        /\ es # <<>> => Legit(ledger, es[1]) /\ Agrees(Apply(ledger, es[1]), ledger')
        /\ Len(es) = 1 => ledger' = Apply(ledger, es[1])
    BY <1>0, <1>1, PersistKept
  <2>2. AuthorityInv' /\ FileInv'
    BY <1>0, <2>1, FileKept
  <2>3. Len(es) = 1 /\ FailToPersist(es) => ledger' = ledger
    BY <1>0, FailKept
  <2> QED BY <2>1, <2>2, <2>3 DEF Moves, Agrees
<1>2. CASE FailToPersist(es)
  <2>1. /\ Kept(log', head', ledger') /\ faults' \in Faults /\ faults'.error # 0
        /\ es # <<>> /\ Legit(ledger, es[1])
        /\ ledger' = ledger \/ Agrees(Apply(ledger, es[1]), ledger')
        /\ Len(es) = 1 => ledger' = ledger
    BY <1>0, <1>2, FailKept
  <2>2. AuthorityInv' /\ FileInv'
    BY <1>0, <2>1, FileKept
  <2>3. Len(es) = 1 /\ Persist(es) => ledger' = Apply(ledger, es[1])
    BY <1>0, PersistKept
  <2> QED BY <2>1, <2>2, <2>3 DEF Moves, Agrees
<1> QED BY <1>1, <1>2

LEMMA IssueHostAccessKept ==
    ASSUME LedgerInv, NoShortWrites, running, NEW h \in Hosts, NEW g \in Generations,
           NEW t \in Tokens, IssueHostAccess(h, g, t)
    PROVE  Preserved
<1> DEFINE es == AccessEvents(h, g, t)
<1>1. /\ MayIssueAccess(h, g, t) /\ (Persist(es) \/ FailToPersist(es))
      /\ UNCHANGED <<authority, pending, listed, bound, running>>
  BY DEF IssueHostAccess, volatileVars
<1>2. EventsOK(es) /\ (es[1] = Access(h, g) \/ es[1] = Pairing(t, h))
  BY <1>1, AccessEventsOK
<1> HIDE DEF es
<1>3. /\ AuthorityInv' /\ FileInv' /\ Moves(ledger, ledger')
      /\ ledger' = ledger \/ Agrees(Apply(ledger, es[1]), ledger')
  BY <1>1, <1>2, HandlerKept
<1>4. ledger \in Ledger
  BY DEF LedgerInv, FileInv, Sound
<1>5. ledger'.revoked = ledger.revoked
  <2>1. Apply(ledger, Access(h, g)).revoked = ledger.revoked
    BY <1>4, AccessApplied
  <2>2. Apply(ledger, Pairing(t, h)).revoked = ledger.revoked
    BY <1>4, PairingApplied
  <2> QED BY <1>2, <1>3, <2>1, <2>2 DEF Agrees
<1>6. SocketInv'
  BY <1>1, <1>5, SocketsKept
<1> QED BY <1>3, <1>6 DEF Preserved, LedgerInv

LEMMA ClaimPromotionVoteKept ==
    ASSUME LedgerInv, NoShortWrites, running, NEW c \in Hosts, ClaimPromotionVote(c)
    PROVE  Preserved
<1> DEFINE es == <<Vote(c)>>
<1>1. /\ ledger.vote = Nobody /\ (Persist(es) \/ FailToPersist(es))
      /\ UNCHANGED <<authority, pending, listed, bound, running>>
  BY DEF ClaimPromotionVote, volatileVars
<1>2. EventsOK(es) /\ es[1] = Vote(c)
  BY <1>1, VoteOK
<1> HIDE DEF es
<1>3. /\ AuthorityInv' /\ FileInv' /\ Moves(ledger, ledger')
      /\ ledger' = ledger \/ Agrees(Apply(ledger, es[1]), ledger')
  BY <1>1, <1>2, HandlerKept
<1>4. ledger \in Ledger
  BY DEF LedgerInv, FileInv, Sound
<1>5. ledger'.revoked = ledger.revoked
  BY <1>2, <1>3, <1>4, VoteApplied DEF Agrees
<1>6. SocketInv'
  BY <1>1, <1>5, SocketsKept
<1> QED BY <1>3, <1>6 DEF Preserved, LedgerInv

\* The file and the sockets when the ledger only loses a credential, or nothing.
LEMMA LedgerSameKept ==
    ASSUME LedgerInv, running, authority' = authority, running' = running, faults' = faults,
           log' = log, head' = head, ledger' \in Ledger, Recalls(ledger, ledger')
    PROVE  AuthorityInv' /\ FileInv' /\ Moves(ledger, ledger') /\ ledger'.revoked = ledger.revoked
<1>1. Agrees(ledger, ledger')
  BY DEF Recalls
<1>2. Kept(log', head', ledger') /\ (InStep(log, head, ledger) => InStep(log', head', ledger'))
  BY AgreesKept
<1>3. faults' \in Faults /\ (faults'.error = 0 => faults.error = 0)
  BY DEF LedgerInv, FileInv
<1>4. AuthorityInv' /\ FileInv'
  BY <1>2, <1>3, FileKept
<1> QED BY <1>1, <1>4 DEF Moves, Agrees

LEMMA BeginRegistrationKept ==
    ASSUME LedgerInv, running, NEW h \in Hosts, NEW r \in Registration, BeginRegistration(h, r)
    PROVE  Preserved
<1>1. /\ r.grant \in Issued(h) /\ pending' = [pending EXCEPT ![h] = r]
      /\ UNCHANGED <<authority, log, head, ledger, listed, bound, running, faults>>
  BY DEF BeginRegistration, fileVars
<1>2. AuthorityInv' /\ FileInv' /\ Moves(ledger, ledger')
  BY <1>1, LedgerSameKept DEF LedgerInv, FileInv, Sound, Recalls, Agrees
<1>3. \A k : Issued(k)' = Issued(k)
  BY <1>1, AuthoritySame DEF LedgerInv
<1>4. SocketInv'
  BY <1>1, <1>3 DEF LedgerInv, SocketInv, RevokedAreOut, IsRevoked
<1> QED BY <1>2, <1>4 DEF Preserved, LedgerInv

LEMMA DisconnectKept ==
    ASSUME LedgerInv, running, NEW h \in Hosts,
           Disconnect(h) \/ DropPending(h) \/ ExpireRecord(h)
    PROVE  Preserved
<1>1. /\ UNCHANGED <<authority, log, head, ledger, running, faults>>
      /\ pending' = pending \/ pending' = [pending EXCEPT ![h] = NoRegistration]
      /\ listed' = listed \/ listed' = [listed EXCEPT ![h] = 0]
      /\ bound' = bound \/ bound' = [bound EXCEPT ![h] = 0]
  BY DEF Disconnect, DropPending, ExpireRecord, fileVars
<1>2. AuthorityInv' /\ FileInv' /\ Moves(ledger, ledger')
  BY <1>1, LedgerSameKept DEF LedgerInv, FileInv, Sound, Recalls, Agrees
<1>3. \A k : Issued(k)' = Issued(k)
  BY <1>1, AuthoritySame DEF LedgerInv
<1>4. /\ pending' \in [Hosts -> Registration \cup {NoRegistration}]
      /\ \A k \in Hosts : pending'[k] # NoRegistration => pending'[k] = pending[k]
  BY <1>1 DEF LedgerInv, SocketInv
<1>5. /\ listed' \in [Hosts -> 0..MaxGeneration] /\ bound' \in [Hosts -> 0..MaxGeneration]
      /\ \A k \in Hosts : listed'[k] \in {0, listed[k]} /\ bound'[k] \in {0, bound[k]}
  BY <1>1, Bounds DEF LedgerInv, SocketInv
<1>6. SocketInv'
  BY <1>1, <1>3, <1>4, <1>5 DEF LedgerInv, SocketInv, RevokedAreOut, IsRevoked
<1> QED BY <1>2, <1>6 DEF Preserved, LedgerInv

LEMMA ExpireAccessKept ==
    ASSUME LedgerInv, running, NEW h \in Hosts, ExpireAccess(h)
    PROVE  Preserved
<1>1. /\ ledger' = [ledger EXCEPT !.access[h] = 0]
      /\ UNCHANGED <<authority, log, head, pending, listed, bound, running, faults>>
  BY DEF ExpireAccess, volatileVars
<1> DEFINE a == [ledger.access EXCEPT ![h] = 0]
<1>2. ledger \in Ledger
  BY DEF LedgerInv, FileInv, Sound
<1>3. /\ ledger = Cells(ledger.marks, ledger.revoked, ledger.vote, ledger.access, ledger.consumed)
      /\ ledger.marks \in [Hosts -> Mark \cup {NoMark}]
      /\ ledger.revoked \in [Hosts -> [Generations -> 0..MaxGeneration]]
      /\ ledger.vote \in Hosts \cup {Nobody}
      /\ ledger.access \in [Hosts -> 0..MaxGeneration]
      /\ ledger.consumed \in [Tokens -> Hosts \cup {Nobody}]
  BY <1>2, LedgerIs
<1>4. ledger' = Cells(ledger.marks, ledger.revoked, ledger.vote, a, ledger.consumed)
  BY <1>1, <1>3 DEF Cells
<1>5. a \in [Hosts -> 0..MaxGeneration]
  BY <1>3, Bounds
<1>6. ledger' \in Ledger
  <2> HIDE DEF a
  <2> QED BY <1>3, <1>4, <1>5 DEF Ledger, Cells
<1>7. \A k \in Hosts : a[k] # 0 => ledger.access[k] = a[k]
  BY <1>3
<1> HIDE DEF a
<1>8. Recalls(ledger, ledger')
  BY <1>4, <1>7, CellsAre DEF Recalls, Agrees
<1>9. AuthorityInv' /\ FileInv' /\ Moves(ledger, ledger') /\ ledger'.revoked = ledger.revoked
  BY <1>1, <1>6, <1>8, LedgerSameKept
<1>10. SocketInv'
  BY <1>1, <1>9, SocketsKept
<1> QED BY <1>9, <1>10 DEF Preserved, LedgerInv

LEMMA ProveRegistrationKept ==
    ASSUME LedgerInv, NoShortWrites, running, NEW h \in Hosts, ProveRegistration(h)
    PROVE  Preserved
<1> DEFINE r == pending[h]
           es == CommitEvents(h, r)
<1>1. /\ r # NoRegistration /\ pending' = [pending EXCEPT ![h] = NoRegistration]
      /\ \/ /\ ValidateRegistration(h, r) /\ Persist(es)
            /\ listed' = [listed EXCEPT ![h] = r.grant]
            /\ bound' = [bound EXCEPT ![h] = r.grant]
         \/ /\ ValidateRegistration(h, r) /\ FailToPersist(es)
            /\ UNCHANGED <<listed, bound>>
         \/ /\ ~ValidateRegistration(h, r)
            /\ UNCHANGED <<log, head, ledger, listed, bound, faults>>
      /\ authority' = authority /\ running' = running
  BY DEF ProveRegistration, fileVars
<1>2. ledger \in Ledger
  BY DEF LedgerInv, FileInv, Sound
<1>3. \A k : Issued(k)' = Issued(k)
  BY <1>1, AuthoritySame DEF LedgerInv
<1>4. /\ pending' \in [Hosts -> Registration \cup {NoRegistration}]
      /\ \A k \in Hosts : pending'[k] # NoRegistration => pending'[k] = pending[k]
  BY <1>1 DEF LedgerInv, SocketInv
<1>5. ASSUME ValidateRegistration(h, r), Persist(es) \/ FailToPersist(es)
      PROVE  /\ AuthorityInv' /\ FileInv' /\ Moves(ledger, ledger')
             /\ ledger'.revoked = ledger.revoked
             /\ r.grant \in Generations /\ ~IsRevoked(h, r.grant)
  <2>1. /\ EventsOK(es)
        /\ es = <<>> \/ \E m \in Mark : es[1] = HighWater(h, m) /\ Len(es) = 1
        /\ r.grant \in Generations /\ ~IsRevoked(h, r.grant)
    BY <1>1, <1>5, CommitEventsOK
  <2> HIDE DEF es
  <2>2. /\ AuthorityInv' /\ FileInv' /\ Moves(ledger, ledger')
        /\ \/ ledger' = ledger
           \/ es # <<>> /\ Legit(ledger, es[1]) /\ Agrees(Apply(ledger, es[1]), ledger')
    BY <1>1, <1>5, <2>1, HandlerKept
  <2>3. \A m \in Mark : Apply(ledger, HighWater(h, m)).revoked = ledger.revoked
    BY <1>2, MarkApplied
  <2>4. ledger'.revoked = ledger.revoked
    BY <2>1, <2>2, <2>3 DEF Agrees
  <2> QED BY <2>1, <2>2, <2>4
<1>6. ASSUME ~ValidateRegistration(h, r), UNCHANGED <<log, head, ledger, listed, bound, faults>>
      PROVE  AuthorityInv' /\ FileInv' /\ Moves(ledger, ledger') /\ ledger'.revoked = ledger.revoked
  BY <1>1, <1>2, <1>6, LedgerSameKept DEF Recalls, Agrees
<1> HIDE DEF es, r
<1>7. AuthorityInv' /\ FileInv' /\ Moves(ledger, ledger') /\ ledger'.revoked = ledger.revoked
  BY <1>1, <1>5, <1>6
<1>8. \/ listed' = listed /\ bound' = bound
      \/ /\ r.grant \in Generations /\ ~IsRevoked(h, r.grant)
         /\ listed' = [listed EXCEPT ![h] = r.grant]
         /\ bound' = [bound EXCEPT ![h] = r.grant]
  BY <1>1, <1>5
<1>9. SocketInv'
  <2>1. CASE listed' = listed /\ bound' = bound
    BY <1>3, <1>4, <1>7, <2>1 DEF LedgerInv, SocketInv, RevokedAreOut, IsRevoked
  <2>2. CASE /\ r.grant \in Generations /\ ~IsRevoked(h, r.grant)
             /\ listed' = [listed EXCEPT ![h] = r.grant]
             /\ bound' = [bound EXCEPT ![h] = r.grant]
    <3> DEFINE g == r.grant
    <3>1. g \in 0..MaxGeneration
      BY <2>2, Bounds DEF Generations
    <3> HIDE DEF g
    <3>2. /\ listed' \in [Hosts -> 0..MaxGeneration] /\ bound' \in [Hosts -> 0..MaxGeneration]
          /\ \A k \in Hosts : /\ listed'[k] = IF k = h THEN g ELSE listed[k]
                              /\ bound'[k] = IF k = h THEN g ELSE bound[k]
      BY <2>2, <3>1 DEF LedgerInv, SocketInv, g
    <3> QED BY <1>3, <1>4, <1>7, <2>2, <3>2 DEF LedgerInv, SocketInv, RevokedAreOut, IsRevoked, g
  <2> QED BY <1>8, <2>1, <2>2
<1> QED BY <1>7, <1>9 DEF Preserved, LedgerInv

LEMMA RevokedAfter ==
    ASSUME NEW l \in Ledger, NEW h \in Hosts, NEW g \in Generations, NEW r \in Generations,
           NEW n, n = Apply(l, Revocation(h, g, r))
    PROVE  \A k \in Hosts, i \in Generations :
               n.revoked[k][i] = IF k = h /\ i = g THEN r ELSE l.revoked[k][i]
<1>1. /\ n.marks = [l.marks EXCEPT ![h] = Floored(@, g, r)]
      /\ n.revoked = [l.revoked EXCEPT ![h] = [@ EXCEPT ![g] = r]]
  BY RevocationApplied
<1>2. l.revoked \in [Hosts -> [Generations -> 0..MaxGeneration]]
  BY LedgerIs
<1> QED BY <1>1, <1>2

LEMMA RevokeKept ==
    ASSUME LedgerInv, NoShortWrites, running, NEW h \in Hosts, NEW r \in DOMAIN authority[h],
           Revoke(h, r)
    PROVE  Preserved
<1> DEFINE g == RevokedBy(h, r)
           e == Revocation(h, g, r)
           drop(f) == [f EXCEPT ![h] = IF @ = g THEN 0 ELSE @]
<1>1. /\ g # 0 /\ AcceptsRevocation(ledger, h, g, r)
      /\ \/ Persist(<<e>>) /\ listed' = drop(listed) /\ bound' = drop(bound)
         \/ FailToPersist(<<e>>) /\ UNCHANGED <<listed, bound>>
      /\ authority' = authority /\ pending' = pending /\ running' = running
  BY DEF Revoke
<1>2. EventsOK(<<e>>) /\ g \in Generations /\ r \in Generations
  <2>1. r \in DOMAIN authority[h] \ Issued(h)
    BY <1>1 DEF Issued, RevokedBy
  <2> QED BY <1>1, <2>1, RevocationOK
<1> HIDE DEF g
<1>3. Len(<<e>>) = 1 /\ <<e>>[1] = e
  OBVIOUS
<1>4. ledger \in Ledger
  BY DEF LedgerInv, FileInv, Sound
<1> HIDE DEF e
<1>5. /\ AuthorityInv' /\ FileInv' /\ Moves(ledger, ledger')
      /\ Persist(<<e>>) => ledger' = Apply(ledger, e)
      /\ FailToPersist(<<e>>) => ledger' = ledger
  BY <1>1, <1>2, <1>3, HandlerKept
<1>6. CASE FailToPersist(<<e>>) /\ UNCHANGED <<listed, bound>>
  <2>1. SocketInv'
    BY <1>1, <1>5, <1>6, SocketsKept
  <2> QED BY <1>5, <2>1 DEF Preserved, LedgerInv
<1>7. CASE Persist(<<e>>) /\ listed' = drop(listed) /\ bound' = drop(bound)
  <2>1. \A k \in Hosts, i \in Generations :
            ledger'.revoked[k][i] = IF k = h /\ i = g THEN r ELSE ledger.revoked[k][i]
    <3>1. ledger' = Apply(ledger, Revocation(h, g, r))
      BY <1>5, <1>7 DEF e
    <3> QED BY <1>2, <1>4, <3>1, RevokedAfter
  <2>2. /\ listed' \in [Hosts -> 0..MaxGeneration] /\ bound' \in [Hosts -> 0..MaxGeneration]
        /\ \A k \in Hosts : /\ listed'[k] = IF k = h /\ listed[k] = g THEN 0 ELSE listed[k]
                            /\ bound'[k] = IF k = h /\ bound[k] = g THEN 0 ELSE bound[k]
    BY <1>7, Bounds DEF LedgerInv, SocketInv
  <2>3. \A k : Issued(k)' = Issued(k)
    BY <1>1, AuthoritySame DEF LedgerInv
  <2>4. ASSUME NEW k \in Hosts, NEW i \in {listed'[k], bound'[k]} \ {0} PROVE ~IsRevoked(k, i)'
    <3>1. /\ i \in {listed[k], bound[k]} \ {0} /\ i \in Generations
          /\ ~(k = h /\ i = g)
      BY <1>2, <2>2, <2>4, Bounds DEF LedgerInv, SocketInv, Generations
    <3>2. ~IsRevoked(k, i)
      BY <3>1 DEF LedgerInv, SocketInv, RevokedAreOut
    <3> QED BY <2>1, <3>1, <3>2 DEF IsRevoked
  <2>5. SocketInv'
    BY <1>1, <2>2, <2>3, <2>4 DEF LedgerInv, SocketInv, RevokedAreOut
  <2> QED BY <1>5, <2>5 DEF Preserved, LedgerInv
<1> QED BY <1>1, <1>6, <1>7

LEMMA InterruptibleOK ==
    ASSUME LedgerInv, NEW es \in Interruptible
    PROVE  EventsOK(es)
<1>1. CASE es = <<>>
  BY <1>1 DEF EventsOK
<1>2. CASE es \in {AccessEvents(x[1], x[2], x[3]) :
             x \in {y \in Hosts \X Generations \X Tokens : MayIssueAccess(y[1], y[2], y[3])}}
  <2>1. PICK h \in Hosts, g \in Generations, t \in Tokens :
            MayIssueAccess(h, g, t) /\ es = AccessEvents(h, g, t)
    BY <1>2
  <2> QED BY <2>1, AccessEventsOK
<1>3. CASE es \in {CommitEvents(h, pending[h]) :
             h \in {k \in Hosts : pending[k] # NoRegistration /\ ValidateRegistration(k, pending[k])}}
  <2>1. PICK h \in Hosts : /\ pending[h] # NoRegistration /\ ValidateRegistration(h, pending[h])
                           /\ es = CommitEvents(h, pending[h])
    BY <1>3
  <2> QED BY <2>1, CommitEventsOK
<1>4. CASE es \in {<<Revocation(x[1], RevokedBy(x[1], x[2]), x[2])>> :
             x \in {y \in Hosts \X Generations :
                       /\ y[2] \in DOMAIN authority[y[1]] \ Issued(y[1])
                       /\ AcceptsRevocation(ledger, y[1], RevokedBy(y[1], y[2]), y[2])}}
  <2>1. PICK h \in Hosts, r \in Generations :
            /\ r \in DOMAIN authority[h] \ Issued(h)
            /\ AcceptsRevocation(ledger, h, RevokedBy(h, r), r)
            /\ es = <<Revocation(h, RevokedBy(h, r), r)>>
    BY <1>4
  <2> QED BY <2>1, RevocationOK
<1>5. CASE es \in {<<Vote(c)>> : c \in {k \in Hosts : ledger.vote = Nobody}}
  BY <1>5, VoteOK
<1> QED BY <1>1, <1>2, <1>3, <1>4, <1>5 DEF Interruptible

LEMMA CrashPreserved ==
    ASSUME LedgerInv, running, Crash
    PROVE  Preserved
<1>1. PICK es \in Interruptible : CrashDuring(es)
  BY DEF Crash
<1>2. EventsOK(es)
  BY InterruptibleOK
<1>3. /\ authority' = authority
      /\ pending' = [h \in Hosts |-> NoRegistration]
      /\ listed' = [h \in Hosts |-> 0] /\ bound' = [h \in Hosts |-> 0]
  BY <1>1 DEF CrashDuring
<1>4. /\ Sound(log', head', ledger') /\ faults' \in Faults /\ faults'.error = faults.error
      /\ running' \in BOOLEAN
      /\ running' => InStep(log', head', ledger')
      /\ Moves(ledger, ledger')
  BY <1>1, <1>2, CrashKept DEF LedgerInv, FileInv
<1>5. AuthorityInv' /\ Grown
  BY <1>3, AuthoritySame DEF LedgerInv
<1>6. Sound(log, head, ledger)' /\ (running' => InStep(log, head, ledger)')
  BY <1>4, <1>5, GrownKept
<1>7. FileInv'
  BY <1>4, <1>6 DEF FileInv, Kept
<1>8. SocketInv'
  BY <1>3, Bounds DEF SocketInv, RevokedAreOut
<1> QED BY <1>4, <1>5, <1>7, <1>8 DEF Preserved, LedgerInv

LEMMA InitInv == Init => LedgerInv
<1> SUFFICES ASSUME Init PROVE LedgerInv
  OBVIOUS
<1>1. AuthorityInv
  <2>1. \A h \in Hosts : authority[h] = <<0>>
    BY DEF Init
  <2>2. <<0>> \in Seq(0..MaxGeneration) /\ Len(<<0>>) = 1 /\ 1 \in Generations
    BY Bounds DEF Generations
  <2>3. \A h \in Hosts, g, r \in Generations : ~Signed(h, g, r)
    BY <2>1 DEF Signed
  <2>4. authority \in [Hosts -> Seq(0..MaxGeneration)]
    BY <2>2 DEF Init
  <2> QED BY <2>1, <2>2, <2>3, <2>4 DEF AuthorityInv
<1>2. SocketInv
  BY Bounds DEF Init, SocketInv, RevokedAreOut
<1>3. Sound(<<>>, <<>>, EmptyLedger) /\ InStep(<<>>, <<>>, EmptyLedger)
  <2>1. SignedLedger(EmptyLedger)
    BY DEF SignedLedger, EmptyLedger
  <2> QED BY <2>1, EmptyIs, EmptySeq, RecordedNothing, RebuildsNothing, FileOfNothing
          DEF Sound, InStep
<1>4. FileInv
  BY <1>3 DEF Init, FileInv, Kept, Faults
<1> QED BY <1>1, <1>2, <1>4 DEF LedgerInv

LEMMA UnchangedPreserved ==
    ASSUME LedgerInv, UNCHANGED vars
    PROVE  Preserved
<1>1. UNCHANGED <<authority, log, head, ledger, pending, listed, bound, running, faults>>
  BY DEF vars, fileVars, volatileVars
<1>2. AuthorityInv' /\ Grown /\ \A h : Issued(h)' = Issued(h)
  BY <1>1, AuthoritySame DEF LedgerInv
<1>3. FileInv'
  <2>1. Sound(log', head', ledger') /\ (running' => Kept(log', head', ledger'))
        /\ (running' /\ faults'.error = 0 => InStep(log', head', ledger'))
    BY <1>1 DEF LedgerInv, FileInv
  <2> QED BY <1>1, <1>2, <2>1, GrownKept DEF LedgerInv, FileInv
<1>4. SocketInv'
  BY <1>1, <1>2, SocketsKept
<1> QED BY <1>1, <1>2, <1>3, <1>4 DEF Preserved, LedgerInv, Moves, Agrees

LEMMA NextPreserved ==
    ASSUME LedgerInv, NoShortWrites, [Next]_vars
    PROVE  Preserved
<1>1. ASSUME NEW h \in Hosts, SignGrant(h) PROVE Preserved
  BY <1>1, SignGrantKept
<1>2. ASSUME NEW h \in Hosts, NEW g \in Generations, SignRevocation(h, g) PROVE Preserved
  BY <1>2, SignRevocationKept
<1>3. ASSUME running, NEW h \in Hosts, NEW g \in Generations, NEW t \in Tokens,
             IssueHostAccess(h, g, t)
      PROVE  Preserved
  BY <1>3, IssueHostAccessKept
<1>4. ASSUME running, NEW h \in Hosts, NEW r \in Registration, BeginRegistration(h, r)
      PROVE  Preserved
  BY <1>4, BeginRegistrationKept
<1>5. ASSUME running, NEW h \in Hosts, ProveRegistration(h) PROVE Preserved
  BY <1>5, ProveRegistrationKept
<1>6. ASSUME running, NEW h \in Hosts, NEW r \in DOMAIN authority[h], Revoke(h, r) PROVE Preserved
  BY <1>6, RevokeKept
<1>7. ASSUME running, NEW c \in Hosts, ClaimPromotionVote(c) PROVE Preserved
  BY <1>7, ClaimPromotionVoteKept
<1>8. ASSUME running, NEW h \in Hosts,
             Disconnect(h) \/ DropPending(h) \/ ExpireRecord(h) \/ ExpireAccess(h)
      PROVE  Preserved
  BY <1>8, DisconnectKept, ExpireAccessKept
<1>9. ASSUME running, Crash PROVE Preserved
  BY <1>9, CrashPreserved
<1> QED BY <1>1, <1>2, <1>3, <1>4, <1>5, <1>6, <1>7, <1>8, <1>9, UnchangedPreserved DEF Next

-----------------------------------------------------------------------------
(***************************************************************************)
(* The theorems.                                                           *)
(***************************************************************************)

\* The inductive invariant: what the file, the chain and the memory of a bridge
\* hold follows from what the authority signed.
THEOREM LedgerInvariant ==
    ASSUME NoShortWrites
    PROVE  Spec => []LedgerInv
<1>1. LedgerInv /\ [Next]_vars => LedgerInv'
  BY NextPreserved DEF Preserved
<1> QED BY <1>1, InitInv, PTL DEF Spec

\* Compacted, torn by a crash and loaded again, the file of a bridge none of whose
\* appends threw rebuilds what the bridge answers from.
THEOREM FileHoldsTheState ==
    ASSUME NoShortWrites
    PROVE  Spec => []FileIsTheState
<1>1. ASSUME LedgerInv PROVE LedgerTypeOK
  BY <1>1 DEF LedgerInv, AuthorityInv, SocketInv, FileInv, Sound, LedgerTypeOK, Faults
<1>2. ASSUME LedgerInv, running, faults.error = 0
      PROVE  /\ Replay(log).ok /\ Replay(log).head = head
             /\ \A h \in Hosts : ledger.access[h] # 0 => Replay(log).ledger.access[h] = ledger.access[h]
             /\ [Replay(log).ledger EXCEPT !.access = ledger.access] = ledger
  <2>1. InStep(log, head, ledger) /\ log \in Seq(Whole) /\ ledger \in Ledger
    BY <1>2 DEF LedgerInv, FileInv, Sound
  <2>2. PICK m \in Ledger : /\ Recalls(m, ledger)
                            /\ \A x : Recovered(x) = FileOf(head) => Replay(x) = Read(m, head)
    BY <2>1, RebuildsReplays DEF InStep
  <2>3. Replay(log) = Read(m, head)
    BY <2>1, <2>2, WholeFile DEF InStep
  <2>4. Replay(log).ok /\ Replay(log).ledger = m /\ Replay(log).head = head
    BY <2>3 DEF Read
  <2>5. [m EXCEPT !.access = ledger.access]
            = Cells(m.marks, m.revoked, m.vote, ledger.access, m.consumed)
    <3>1. m = Cells(m.marks, m.revoked, m.vote, m.access, m.consumed)
      BY LedgerIs
    <3> QED BY <3>1 DEF Cells
  <2>6. ledger = Cells(ledger.marks, ledger.revoked, ledger.vote, ledger.access, ledger.consumed)
    BY <2>1, LedgerIs
  <2> QED BY <2>2, <2>4, <2>5, <2>6 DEF Recalls, Agrees
<1>3. LedgerInv => FileIsTheState
  BY <1>1, <1>2 DEF FileIsTheState, ReplayRestores
<1> QED BY <1>3, LedgerInvariant, PTL

\* A bridge answers nothing from memory that is not on a line of its file, also
\* after appends that threw.
THEOREM NothingAnsweredUnwritten ==
    ASSUME NoShortWrites
    PROVE  Spec => []WrittenAhead
<1>1. LedgerInv => WrittenAhead
  BY DEF LedgerInv, FileInv, Sound, RecordedIn, MarkIn, Told, WrittenAhead
<1> QED BY <1>1, LedgerInvariant, PTL

\* The directory and the sockets hold nobody under a revoked grant, also when the
\* revocation came between the two halves of a registration.
THEOREM RevokedStayOut ==
    ASSUME NoShortWrites
    PROVE  Spec => []RevokedAreOut
<1>1. LedgerInv => RevokedAreOut
  BY DEF LedgerInv, SocketInv
<1> QED BY <1>1, LedgerInvariant, PTL

\* The newest grant of a host is never locked out, and a revocation that is
\* delivered late is still accepted.
THEOREM AuthorityStaysAccepted ==
    ASSUME NoShortWrites
    PROVE  Spec => []AuthorityIsAccepted
<1>1. ASSUME LedgerInv PROVE RevocationsAccepted
  <2>1. ASSUME NEW h \in Hosts, NEW r \in DOMAIN authority[h] \ Issued(h)
        PROVE  \/ ledger.revoked[h][RevokedBy(h, r)] = r
               \/ AcceptsRevocation(ledger, h, RevokedBy(h, r), r)
    <3>1. Signed(h, RevokedBy(h, r), r)
      BY <1>1, <2>1, SignedIs DEF LedgerInv
    <3> QED BY <1>1, <3>1, RevocationIsAccepted DEF LedgerInv, FileInv, Sound
  <2> QED BY <2>1 DEF RevocationsAccepted
<1>2. ASSUME LedgerInv, NEW h \in Hosts, Last(authority[h]) = 0
      PROVE  ValidateRegistration(h, [seq |-> ledger.marks[h].seq + 1, grant |-> Len(authority[h])])
  <2> DEFINE g == Len(authority[h])
             m == ledger.marks[h]
  <2>1. /\ g \in Generations /\ DOMAIN authority[h] = 1..g
        /\ \A i, r : Signed(h, i, r) => i < r /\ r \notin Issued(h)
        /\ \A i, r : Signed(h, i, r) => r \in DOMAIN authority[h]
    BY <1>2, SignedIs DEF LedgerInv, Signed
  <2>2. g \in Issued(h)
    BY <1>2, <2>1 DEF Last, Issued, Generations
  <2>3. ledger \in Ledger /\ SignedLedger(ledger)
    BY <1>2 DEF LedgerInv, FileInv, Sound
  <2> HIDE DEF g, m
  <2>4. ledger.revoked[h][g] = 0
    <3>1. ledger.revoked[h][g] # 0 => Signed(h, g, ledger.revoked[h][g])
      BY <2>1, <2>3 DEF SignedLedger
    <3> QED BY <2>1, <3>1 DEF Generations
  <2>5. m \in Mark \cup {NoMark}
    BY <2>3, LedgerIs DEF m
  <2>6. m.generation <= g /\ (m.generation = g => m.grant = g)
    <3>1. CASE m = NoMark
      BY <2>1, <3>1 DEF NoMark, Generations
    <3>2. CASE m # NoMark
      <4>1. SignedMark(h, m, ledger.revoked[h])
        BY <2>3, <3>2 DEF SignedLedger, m
      <4>2. m.generation \in DOMAIN authority[h]
        BY <2>1, <4>1 DEF SignedMark, Issued
      <4>3. m.generation = g => m.grant = g
        BY <2>1, <2>2, <4>1 DEF SignedMark
      <4> QED BY <2>1, <4>2, <4>3 DEF Generations
    <3> QED BY <3>1, <3>2
  <2>7. ~IsRevoked(h, g)
    BY <2>1, <2>4 DEF IsRevoked, Generations
  <2>8. m.generation \in Nat
    BY <2>5, Bounds DEF Mark, NoMark, Generations
  <2>9. g \in Nat
    BY <2>1 DEF Generations
  <2> DEFINE x == [seq |-> m.seq + 1, grant |-> g]
  <2>10. x.seq = m.seq + 1 /\ x.grant = g
    OBVIOUS
  <2> HIDE DEF x
  <2>11. ValidateRegistration(h, x)
    BY <2>6, <2>7, <2>8, <2>9, <2>10 DEF ValidateRegistration, m
  <2> QED BY <2>11 DEF x, m, g
<1>3. LedgerInv => AuthorityIsAccepted
  BY <1>1, <1>2 DEF AuthorityIsAccepted, LatestGrantAccepted
<1> QED BY <1>3, LedgerInvariant, PTL

LEMMA PromiseVars ==
    ASSUME Agrees(ledger, ledger')
    PROVE  UNCHANGED Promise!vars
BY DEF Promise!vars, Agrees

\* What a legitimate event is to the promise.
LEMMA PromiseStep ==
    ASSUME AuthorityInv, ledger \in Ledger, SignedLedger(ledger), NEW e, Legit(ledger, e),
           Agrees(Apply(ledger, e), ledger')
    PROVE  [Promise!Next]_(Promise!vars)
<1> DEFINE n == Apply(ledger, e)
           floor(l) == [h \in Hosts |-> l.marks[h].generation]
<1>0. /\ ledger'.marks = n.marks /\ ledger'.revoked = n.revoked
      /\ ledger'.vote = n.vote /\ ledger'.consumed = n.consumed
  BY DEF Agrees
<1>a. floor(ledger') = floor(n)
  BY <1>0
<1>b. /\ ledger.marks \in [Hosts -> Mark \cup {NoMark}]
      /\ ledger.revoked \in [Hosts -> [Generations -> 0..MaxGeneration]]
  BY LedgerIs
<1>1. ASSUME NEW h \in Hosts, NEW m \in Mark, e = HighWater(h, m), LegitMark(ledger, h, m)
      PROVE  Promise!Register(h, m.generation) \/ UNCHANGED Promise!vars
  <2>1. /\ n.marks = [ledger.marks EXCEPT ![h] = m] /\ n.revoked = ledger.revoked
        /\ n.vote = ledger.vote /\ n.consumed = ledger.consumed
    BY <1>1, MarkApplied
  <2> HIDE DEF n
  <2>2. floor(n) = [floor(ledger) EXCEPT ![h] = m.generation]
    BY <1>b, <2>1
  <2>3. floor(ledger)[h] \in Nat /\ m.generation \in Nat /\ floor(ledger)[h] <= m.generation
    <3>1. ledger.marks[h].generation \in Nat
      BY <1>b, Bounds DEF Mark, NoMark, Generations
    <3> QED BY <1>1, <3>1 DEF LegitMark, Mark, Generations
  <2>4. ledger.revoked[h][m.generation] = 0
    BY <1>1 DEF LegitMark
  <2>5. floor(ledger') = [floor(ledger) EXCEPT ![h] = m.generation]
    BY <1>a, <2>2
  <2>6. CASE floor(ledger)[h] < m.generation
    BY <1>0, <2>1, <2>4, <2>5, <2>6 DEF Promise!Register
  <2>7. CASE floor(ledger)[h] = m.generation
    <3>1. floor(ledger') = floor(ledger)
      BY <2>5, <2>7
    <3> QED BY <1>0, <2>1, <3>1 DEF Promise!vars
  <2> QED BY <2>3, <2>6, <2>7
<1>2. ASSUME NEW h \in Hosts, NEW g \in Generations, NEW r \in Generations,
             e = Revocation(h, g, r), Signed(h, g, r), ledger.revoked[h][g] = 0
      PROVE  Promise!Revoke(h, g, r)
  <2>1. /\ n.marks = [ledger.marks EXCEPT ![h] = Floored(@, g, r)]
        /\ n.revoked = [ledger.revoked EXCEPT ![h] = [@ EXCEPT ![g] = r]]
        /\ n.vote = ledger.vote /\ n.consumed = ledger.consumed
    BY <1>2, RevocationApplied
  <2> HIDE DEF n
  <2> DEFINE f == Floored(ledger.marks[h], g, r)
             mark == ledger.marks[h]
  <2>2. f.generation = IF mark.grant = g /\ mark.generation < r THEN r ELSE mark.generation
    BY <1>b, FlooredIs
  <2>3. floor(n) = [floor(ledger) EXCEPT ![h] = f.generation]
    <3> HIDE DEF f
    <3>1. n.marks = [ledger.marks EXCEPT ![h] = f]
      BY <2>1 DEF f
    <3> QED BY <1>b, <3>1
  <2> HIDE DEF f
  <2>4. \/ floor(ledger') = floor(ledger)
        \/ floor(ledger)[h] < r /\ floor(ledger') = [floor(ledger) EXCEPT ![h] = r]
    <3>1. CASE mark.grant = g /\ mark.generation < r
      BY <1>a, <2>2, <2>3, <3>1
    <3>2. CASE ~(mark.grant = g /\ mark.generation < r)
      BY <1>a, <2>2, <2>3, <3>2, ZenonT(60)
    <3> QED BY <3>1, <3>2
  <2>5. g < r
    BY <1>2, SignedIs
  <2>6. ledger'.revoked = [ledger.revoked EXCEPT ![h][g] = r]
    BY <1>0, <2>1
  <2> QED BY <1>0, <1>2, <2>1, <2>4, <2>5, <2>6 DEF Promise!Revoke
<1>3. ASSUME NEW h \in Hosts, e = Vote(h), ledger.vote = Nobody PROVE Promise!Elect(h)
  <2>1. /\ n.marks = ledger.marks /\ n.revoked = ledger.revoked
        /\ n.vote = h /\ n.consumed = ledger.consumed
    BY <1>3, VoteApplied
  <2> HIDE DEF n
  <2>2. floor(ledger') = floor(ledger)
    BY <1>a, <2>1
  <2> QED BY <1>0, <1>3, <2>1, <2>2 DEF Promise!Elect
<1>4. ASSUME NEW h \in Hosts, NEW g \in Generations, e = Access(h, g)
      PROVE  UNCHANGED Promise!vars
  <2>1. /\ n.marks = ledger.marks /\ n.revoked = ledger.revoked
        /\ n.vote = ledger.vote /\ n.consumed = ledger.consumed
    BY <1>4, AccessApplied, ZenonT(60)
  <2> HIDE DEF n
  <2>2. floor(ledger') = floor(ledger)
    BY <1>a, <2>1
  <2> QED BY <1>0, <2>1, <2>2 DEF Promise!vars
<1>5. ASSUME NEW t \in Tokens, NEW h \in Hosts, e = Pairing(t, h), ledger.consumed[t] = Nobody
      PROVE  Promise!Pair(t, h)
  <2>1. /\ n.marks = ledger.marks /\ n.revoked = ledger.revoked
        /\ n.vote = ledger.vote /\ n.consumed = [ledger.consumed EXCEPT ![t] = h]
    BY <1>5, PairingApplied
  <2> HIDE DEF n
  <2>2. floor(ledger') = floor(ledger)
    BY <1>a, <2>1
  <2> QED BY <1>0, <1>5, <2>1, <2>2 DEF Promise!Pair
<1>6. \A m \in Mark : m.generation \in Promise!Generations
  BY DEF Mark, Generations, Promise!Generations
<1>7. Generations = Promise!Generations
  BY DEF Generations, Promise!Generations
<1> HIDE DEF n
<1> QED BY <1>1, <1>2, <1>3, <1>4, <1>5, <1>6, <1>7 DEF Legit, Promise!Next

\* The bridge keeps its promises through crashes, compactions and failed appends:
\* one vote, one owner of a pairing token, revocations for good, and a floor under
\* the generations of each host that never sinks.
THEOREM PromiseIsKept ==
    ASSUME NoShortWrites
    PROVE  Spec => ImplementsPromise
<1>1. Init => Promise!Init
  BY DEF Init, EmptyLedger, NoMark, Generations, Promise!Init, Promise!Generations
<1>2. ASSUME LedgerInv, [Next]_vars PROVE [Promise!Next]_(Promise!vars)
  <2>1. Moves(ledger, ledger')
    BY <1>2, NextPreserved DEF Preserved
  <2>2. AuthorityInv /\ ledger \in Ledger /\ SignedLedger(ledger)
    BY <1>2 DEF LedgerInv, FileInv, Sound
  <2>3. CASE Agrees(ledger, ledger')
    BY <2>3, PromiseVars
  <2>4. CASE \E e : Legit(ledger, e) /\ Agrees(Apply(ledger, e), ledger')
    BY <2>2, <2>4, PromiseStep
  <2> QED BY <2>1, <2>3, <2>4 DEF Moves
<1> QED BY <1>1, <1>2, LedgerInvariant, PTL DEF Spec, ImplementsPromise, Promise!Spec
=============================================================================
