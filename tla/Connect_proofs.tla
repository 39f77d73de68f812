----------------------------- MODULE Connect_proofs -----------------------------
(***************************************************************************)
(* The order and the promise of requests, over either transport, and what  *)
(* a session is worth: for any requests, connections, frames and faults.   *)
(*                                                                         *)
(* The argument: Sound speaks of the queue, the requests in flight and the *)
(* frames of all connections as one value (Now).  Each request is in one   *)
(* place (Single), what is in flight is what the current connection        *)
(* carries (Wired), who waits is queued or in flight (Settling), and what  *)
(* waits was asked for after whatever went before it (InTurn).  A step of  *)
(* either transport is one or a few of a handful of moves of that value    *)
(* (Make, Send, Execute, ...), each proved to keep it Sound by what is in  *)
(* a sequence and what comes before what.  HostClient adds that it has one *)
(* request in flight and a socket per fault (SocketInv), IceHostTransport  *)
(* that it queues nothing while it is ready (ChannelInv), and the gateway  *)
(* that its TURN queue has no holes (GateInv).                             *)
(***************************************************************************)
EXTENDS Connect, SequenceTheorems, TLAPS

(***************************************************************************)
(* Sequences, by what is in them and what comes before what: nothing else  *)
(* of a queue matters here, and no position is named again.                *)
(***************************************************************************)
Precedes(q, a, b) == \E i, j \in 1..Len(q) : i < j /\ q[i] = a /\ q[j] = b

Distinct(q) == \A a : ~Precedes(q, a, a)

LEMMA EmptyFacts ==
    ToSet(<<>>) = {} /\ (\A a, b : ~Precedes(<<>>, a, b))
BY DEF ToSet, Precedes

LEMMA MemberFacts ==
    ASSUME NEW S, NEW q \in Seq(S)
    PROVE  /\ ToSet(q) \subseteq S
           /\ ToSet(q) = {} <=> q = <<>>
           /\ \A a, b : Precedes(q, a, b) => a \in ToSet(q) /\ b \in ToSet(q)
           /\ \A i \in 1..Len(q) : q[i] \in ToSet(q)
<1> DOMAIN q = 1..Len(q) /\ Len(q) \in Nat /\ (\A i \in 1..Len(q) : q[i] \in S)
  BY LenProperties, ElementOfSeq
<1>1. ToSet(q) \subseteq S /\ (\A i \in 1..Len(q) : q[i] \in ToSet(q))
  BY DEF ToSet
<1>2. ToSet(q) = {} <=> q = <<>>
  <2>1. ASSUME q # <<>> PROVE ToSet(q) # {}
    <3>1. 1 \in 1..Len(q) BY <2>1, EmptySeq
    <3> QED BY <3>1, <1>1
  <2> QED BY <2>1, EmptyFacts
<1>3. ASSUME NEW a, NEW b, Precedes(q, a, b) PROVE a \in ToSet(q) /\ b \in ToSet(q)
  BY <1>1, <1>3 DEF Precedes
<1> QED BY <1>1, <1>2, <1>3

LEMMA ConcatFacts ==
    ASSUME NEW S, NEW p \in Seq(S), NEW q \in Seq(S)
    PROVE  /\ p \o q \in Seq(S)
           /\ ToSet(p \o q) = ToSet(p) \cup ToSet(q)
           /\ \A a, b : Precedes(p \o q, a, b) <=>
                 \/ Precedes(p, a, b) \/ Precedes(q, a, b)
                 \/ a \in ToSet(p) /\ b \in ToSet(q)
<1> DEFINE m == Len(p)
           n == Len(q)
           u == p \o q
<1>1. /\ m \in Nat /\ n \in Nat /\ DOMAIN p = 1..m /\ DOMAIN q = 1..n
      /\ u \in Seq(S) /\ Len(u) = m + n /\ DOMAIN u = 1..(m + n)
      /\ \A i \in 1..(m + n) : u[i] = IF i <= m THEN p[i] ELSE q[i - m]
  <2>1. u \in Seq(S) /\ Len(u) = m + n
        /\ \A i \in 1..(m + n) : u[i] = IF i <= m THEN p[i] ELSE q[i - m]
    BY ConcatProperties
  <2> HIDE DEF u
  <2> QED BY <2>1, LenProperties
<1> HIDE DEF m, n, u
<1>2. /\ \A i \in 1..m : i \in 1..(m + n) /\ u[i] = p[i]
      /\ \A i \in 1..n : m + i \in 1..(m + n) /\ u[m + i] = q[i]
  BY <1>1
<1>3. ToSet(u) = ToSet(p) \cup ToSet(q)
  <2>1. ASSUME NEW i \in 1..(m + n) PROVE u[i] \in ToSet(p) \cup ToSet(q)
    <3>1. CASE i <= m
      <4>1. i \in 1..m BY <3>1, <1>1
      <4> QED BY <4>1, <1>1, <1>2 DEF ToSet
    <3>2. CASE i > m
      <4>1. i - m \in 1..n /\ u[i] = q[i - m] BY <3>2, <1>1
      <4> QED BY <4>1, <1>1 DEF ToSet
    <3> QED BY <3>1, <3>2, <1>1
  <2>2. ToSet(u) \subseteq ToSet(p) \cup ToSet(q)
    BY <2>1, <1>1 DEF ToSet
  <2>3. ToSet(p) \subseteq ToSet(u)
    BY <1>1, <1>2, ZenonT(60) DEF ToSet
  <2>4. ASSUME NEW i \in 1..n PROVE q[i] \in ToSet(u)
    <3>1. m + i \in DOMAIN u /\ u[m + i] = q[i] BY <1>1, <1>2
    <3> QED BY <3>1 DEF ToSet
  <2>5. ToSet(q) \subseteq ToSet(u)
    BY <2>4, <1>1 DEF ToSet
  <2> QED BY <2>2, <2>3, <2>5
<1>4. ASSUME NEW a, NEW b, Precedes(u, a, b)
      PROVE  \/ Precedes(p, a, b) \/ Precedes(q, a, b)
             \/ a \in ToSet(p) /\ b \in ToSet(q)
  <2>1. PICK i, j \in 1..(m + n) : i < j /\ u[i] = a /\ u[j] = b
    BY <1>1, <1>4 DEF Precedes, u
  <2>2. CASE j <= m
    <3>1. i \in 1..m /\ j \in 1..m /\ p[i] = a /\ p[j] = b BY <2>1, <2>2, <1>1
    <3> QED BY <3>1, <2>1 DEF Precedes, m
  <2>3. CASE i <= m /\ j > m
    <3>1. i \in 1..m /\ p[i] = a BY <2>1, <2>3, <1>1
    <3>2. j - m \in 1..n /\ q[j - m] = b BY <2>1, <2>3, <1>1
    <3> QED BY <3>1, <3>2, <1>1 DEF ToSet
  <2>4. CASE i > m
    <3>1. i - m \in 1..n /\ j - m \in 1..n /\ q[i - m] = a /\ q[j - m] = b /\ i - m < j - m
      BY <2>1, <2>4, <1>1
    <3> QED BY <3>1 DEF Precedes, n
  <2> QED BY <2>1, <2>2, <2>3, <2>4, <1>1
<1>5. ASSUME NEW a, NEW b, Precedes(p, a, b) PROVE Precedes(u, a, b)
  <2>1. PICK i, j \in 1..m : i < j /\ p[i] = a /\ p[j] = b
    BY <1>5 DEF Precedes, m
  <2>2. i \in 1..(m + n) /\ j \in 1..(m + n) /\ u[i] = a /\ u[j] = b BY <2>1, <1>2
  <2> QED BY <2>1, <2>2, <1>1 DEF Precedes, u
<1>6. ASSUME NEW a, NEW b, Precedes(q, a, b) PROVE Precedes(u, a, b)
  <2>1. PICK i, j \in 1..n : i < j /\ q[i] = a /\ q[j] = b
    BY <1>6 DEF Precedes, n
  <2>2. /\ m + i \in 1..(m + n) /\ m + j \in 1..(m + n) /\ u[m + i] = a /\ u[m + j] = b
        /\ m + i < m + j
    BY <2>1, <1>2, <1>1
  <2> QED BY <2>2, <1>1 DEF Precedes, u
<1>7. ASSUME NEW a \in ToSet(p), NEW b \in ToSet(q) PROVE Precedes(u, a, b)
  <2>1. PICK i \in 1..m, j \in 1..n : p[i] = a /\ q[j] = b
    BY <1>1 DEF ToSet
  <2>2. i \in 1..(m + n) /\ m + j \in 1..(m + n) /\ u[i] = a /\ u[m + j] = b /\ i < m + j
    BY <2>1, <1>2, <1>1
  <2> QED BY <2>2, <1>1 DEF Precedes, u
<1> QED BY <1>1, <1>3, <1>4, <1>5, <1>6, <1>7 DEF u

LEMMA SingleFacts ==
    ASSUME NEW S, NEW e \in S
    PROVE  <<e>> \in Seq(S) /\ ToSet(<<e>>) = {e} /\ (\A a, b : ~Precedes(<<e>>, a, b))
<1>1. <<e>> \in Seq(S) /\ Len(<<e>>) = 1 /\ DOMAIN <<e>> = 1..1 /\ <<e>>[1] = e
  OBVIOUS
<1> QED BY <1>1 DEF ToSet, Precedes

LEMMA AppendFacts ==
    ASSUME NEW S, NEW q \in Seq(S), NEW e \in S
    PROVE  /\ ToSet(Append(q, e)) = ToSet(q) \cup {e}
           /\ \A a, b : Precedes(Append(q, e), a, b) <=>
                 Precedes(q, a, b) \/ (a \in ToSet(q) /\ b = e)
<1>1. Append(q, e) = q \o <<e>>
  BY AppendIsConcat
<1>2. <<e>> \in Seq(S) /\ ToSet(<<e>>) = {e} /\ (\A a, b : ~Precedes(<<e>>, a, b))
  BY SingleFacts
<1>3. /\ q \o <<e>> \in Seq(S) /\ ToSet(q \o <<e>>) = ToSet(q) \cup ToSet(<<e>>)
      /\ \A a, b : Precedes(q \o <<e>>, a, b) <=>
            \/ Precedes(q, a, b) \/ Precedes(<<e>>, a, b)
            \/ a \in ToSet(q) /\ b \in ToSet(<<e>>)
  BY <1>2, ConcatFacts
<1> QED BY <1>1, <1>2, <1>3

\* Of a sequence that is not empty: its head, then the rest.
LEMMA HeadTailConcat ==
    ASSUME NEW S, NEW q \in Seq(S), q # <<>>
    PROVE  q = <<Head(q)>> \o Tail(q)
<1>1. Head(q) \in S /\ Tail(q) \in Seq(S) /\ Len(Tail(q)) = Len(q) - 1
      /\ \A i \in 1..Len(Tail(q)) : Tail(q)[i] = q[i + 1]
  BY HeadTailProperties
<1>2. <<Head(q)>> \in Seq(S) /\ Len(<<Head(q)>>) = 1 /\ <<Head(q)>>[1] = Head(q)
  BY <1>1
<1>3. q = <<Head(q)>> \o Tail(q)
  <2> DEFINE u == <<Head(q)>> \o Tail(q)
  <2>1. u \in Seq(S) /\ Len(u) = 1 + Len(Tail(q))
        /\ \A i \in 1..(1 + Len(Tail(q))) : u[i] = IF i <= 1 THEN <<Head(q)>>[i] ELSE Tail(q)[i - 1]
    BY <1>1, <1>2, ConcatProperties
  <2>2. Len(q) \in Nat \ {0} /\ Head(q) = q[1]
    BY EmptySeq, LenProperties
  <2> HIDE DEF u
  <2>3. Len(u) = Len(q) BY <2>1, <2>2, <1>1
  <2>4. ASSUME NEW i \in 1..Len(q) PROVE u[i] = q[i]
    <3>1. CASE i = 1 BY <3>1, <2>1, <2>2, <1>1
    <3>2. CASE i > 1
      <4>1. i - 1 \in 1..Len(Tail(q)) /\ u[i] = Tail(q)[i - 1] BY <3>2, <2>1, <2>2, <1>1
      <4> QED BY <4>1, <1>1, <2>2
    <3> QED BY <3>1, <3>2
  <2>5. u = q BY <2>1, <2>3, <2>4, SeqEqual
  <2> QED BY <2>5 DEF u
<1> QED BY <1>3

LEMMA HeadTailFacts ==
    ASSUME NEW S, NEW q \in Seq(S), q # <<>>
    PROVE  /\ Head(q) \in S /\ Tail(q) \in Seq(S)
           /\ ToSet(q) = {Head(q)} \cup ToSet(Tail(q))
           /\ \A a, b : Precedes(q, a, b) <=>
                 Precedes(Tail(q), a, b) \/ (a = Head(q) /\ b \in ToSet(Tail(q)))
<1> DEFINE h == Head(q)
           u == Tail(q)
<1>1. h \in S /\ u \in Seq(S)
  BY HeadTailProperties
<1>2. q = <<h>> \o u
  BY HeadTailConcat
<1> HIDE DEF h, u
<1>3. <<h>> \in Seq(S) /\ ToSet(<<h>>) = {h} /\ (\A a, b : ~Precedes(<<h>>, a, b))
  BY <1>1, SingleFacts
<1>4. ToSet(<<h>> \o u) = {h} \cup ToSet(u)
      /\ \A a, b : Precedes(<<h>> \o u, a, b) <=>
                 Precedes(u, a, b) \/ (a = h /\ b \in ToSet(u))
  BY <1>1, <1>3, ConcatFacts
<1> QED BY <1>1, <1>2, <1>4 DEF h, u

LEMMA ConsFacts ==
    ASSUME NEW S, NEW h \in S, NEW u \in Seq(S)
    PROVE  <<h>> \o u # <<>> /\ Head(<<h>> \o u) = h /\ Tail(<<h>> \o u) = u
<1> DEFINE q == <<h>> \o u
<1>1. /\ q \in Seq(S) /\ Len(q) = 1 + Len(u) /\ Len(u) \in Nat
      /\ \A i \in 1..(1 + Len(u)) : q[i] = IF i <= 1 THEN <<h>>[i] ELSE u[i - 1]
  <2>1. <<h>> \in Seq(S) /\ Len(<<h>>) = 1 OBVIOUS
  <2> QED BY <2>1, ConcatProperties, LenProperties
<1> HIDE DEF q
<1>2. q # <<>> /\ Head(q) = h
  <2>1. q # <<>> BY <1>1, EmptySeq
  <2>2. Head(q) = q[1] BY <1>1, <2>1
  <2>3. q[1] = h BY <1>1
  <2> QED BY <2>1, <2>2, <2>3
<1>3. Tail(q) \in Seq(S) /\ Len(Tail(q)) = Len(u) /\ (\A i \in 1..Len(u) : Tail(q)[i] = q[i + 1])
  <2>1. Tail(q) \in Seq(S) /\ Len(Tail(q)) = Len(q) - 1
        /\ \A i \in 1..Len(Tail(q)) : Tail(q)[i] = q[i + 1]
    BY <1>1, <1>2, HeadTailProperties
  <2> QED BY <2>1, <1>1
<1>4. \A i \in 1..Len(u) : Tail(q)[i] = u[i]
  <2>1. ASSUME NEW i \in 1..Len(u) PROVE q[i + 1] = u[i]
    <3>1. i + 1 \in 1..(1 + Len(u)) /\ ~(i + 1 <= 1) /\ (i + 1) - 1 = i BY <1>1
    <3> QED BY <3>1, <1>1
  <2> QED BY <2>1, <1>3
<1>5. Tail(q) = u
  BY <1>3, <1>4, SeqEqual
<1> QED BY <1>2, <1>5 DEF q

\* What comes before the nth element, the element, and what comes after it.
LEMMA SplitFacts ==
    ASSUME NEW S, NEW q \in Seq(S), NEW n \in 1..Len(q)
    PROVE  /\ SubSeq(q, 1, n - 1) \in Seq(S) /\ SubSeq(q, n + 1, Len(q)) \in Seq(S) /\ q[n] \in S
           /\ q = (SubSeq(q, 1, n - 1) \o <<q[n]>>) \o SubSeq(q, n + 1, Len(q))
<1>1. Len(q) \in Nat /\ n \in Nat /\ q \in [1..Len(q) -> S] /\ q[n] \in S
  BY LenProperties, ElementOfSeq
<1>2. SubSeq(q, 1, n - 1) \in Seq(S) /\ SubSeq(q, n + 1, Len(q)) \in Seq(S)
  <2>1. \A i \in 1..(n - 1) : q[i] \in S BY <1>1
  <2>2. \A i \in (n + 1)..Len(q) : q[i] \in S BY <1>1
  <2>3. SubSeq(q, 1, n - 1) \in Seq(S) BY <2>1, <1>1, SubSeqProperties
  <2> QED BY <2>2, <2>3, <1>1, SubSeqProperties
<1>3. SubSeq(q, 1, n) = SubSeq(q, 1, n - 1) \o <<q[n]>>
  BY <1>1, SubSeqRecursiveSecond
<1>4. SubSeq(q, 1, n) \o SubSeq(q, n + 1, Len(q)) = SubSeq(q, 1, Len(q))
  <2>1. 1 \in 1..(Len(q) + 1) /\ n \in (1 - 1)..Len(q) /\ Len(q) \in n..Len(q)
    BY <1>1
  <2> QED BY <2>1, ConcatAdjacentSubSeq
<1>5. SubSeq(q, 1, Len(q)) = q
  BY SubSeqFull
<1> QED BY <1>1, <1>2, <1>3, <1>4, <1>5

LEMMA WithoutFacts ==
    ASSUME NEW S, NEW q \in Seq(S), NEW r
    PROVE  /\ Without(q, r) \in Seq(S)
           /\ ToSet(Without(q, r)) \subseteq ToSet(q)
           /\ ToSet(q) \subseteq ToSet(Without(q, r)) \cup {r}
           /\ \A a, b : Precedes(Without(q, r), a, b) => Precedes(q, a, b)
           /\ Distinct(q) => r \notin ToSet(Without(q, r))
<1>1. CASE r \notin ToSet(q)
  BY <1>1 DEF Without
<1>2. CASE r \in ToSet(q)
  <2> DEFINE n == CHOOSE i \in DOMAIN q : q[i] = r
             p == SubSeq(q, 1, n - 1)
             t == SubSeq(q, n + 1, Len(q))
  <2>1. n \in 1..Len(q) /\ q[n] = r
    <3>1. \E i \in DOMAIN q : q[i] = r BY <1>2 DEF ToSet
    <3>2. n \in DOMAIN q /\ q[n] = r BY <3>1
    <3> QED BY <3>2, LenProperties
  <2>2. Without(q, r) = p \o t
    BY <1>2 DEF Without, RemoveAt
  <2> HIDE DEF n
  <2>3. p \in Seq(S) /\ t \in Seq(S) /\ r \in S /\ q = (p \o <<r>>) \o t
    BY <2>1, SplitFacts
  <2> HIDE DEF p, t
  <2>4. <<r>> \in Seq(S) /\ ToSet(<<r>>) = {r} /\ (\A a, b : ~Precedes(<<r>>, a, b))
    BY <2>3, SingleFacts
  <2>5. /\ p \o <<r>> \in Seq(S) /\ ToSet(p \o <<r>>) = ToSet(p) \cup {r}
        /\ \A a, b : Precedes(p \o <<r>>, a, b) <=> Precedes(p, a, b) \/ (a \in ToSet(p) /\ b = r)
    BY <2>3, <2>4, ConcatFacts
  <2>6. /\ ToSet(q) = ToSet(p) \cup {r} \cup ToSet(t)
        /\ \A a, b : Precedes(q, a, b) <=>
              \/ Precedes(p \o <<r>>, a, b) \/ Precedes(t, a, b)
              \/ a \in ToSet(p) \cup {r} /\ b \in ToSet(t)
    BY <2>3, <2>5, ConcatFacts
  <2>7. /\ p \o t \in Seq(S) /\ ToSet(p \o t) = ToSet(p) \cup ToSet(t)
        /\ \A a, b : Precedes(p \o t, a, b) <=>
              \/ Precedes(p, a, b) \/ Precedes(t, a, b)
              \/ a \in ToSet(p) /\ b \in ToSet(t)
    BY <2>3, ConcatFacts
  <2> QED BY <2>2, <2>5, <2>6, <2>7 DEF Distinct
<1> QED BY <1>1, <1>2

LEMMA AppendOfConcat ==
    ASSUME NEW p \in Seq(Requests), NEW q \in Seq(Requests), NEW e \in Requests
    PROVE  Append(p \o q, e) = p \o Append(q, e)
<1>1. <<e>> \in Seq(Requests) /\ p \o q \in Seq(Requests)
  BY ConcatProperties
<1>2. (p \o q) \o <<e>> = p \o (q \o <<e>>)
  BY <1>1, ConcatAssociative
<1>3. Append(p \o q, e) = (p \o q) \o <<e>> /\ Append(q, e) = q \o <<e>>
  BY <1>1, AppendIsConcat, Zenon
<1> QED BY <1>2, <1>3, Zenon

LEMMA HeadMoves ==
    ASSUME NEW p \in Seq(Requests), NEW q \in Seq(Requests), q # <<>>
    PROVE  Append(p, Head(q)) \o Tail(q) = p \o q
<1> DEFINE h == Head(q)
           u == Tail(q)
<1>1. h \in Requests /\ u \in Seq(Requests) /\ q = <<h>> \o u
  BY HeadTailProperties, HeadTailConcat
<1> HIDE DEF h, u
<1>2. <<h>> \in Seq(Requests)
  BY <1>1
<1>3. (p \o <<h>>) \o u = p \o (<<h>> \o u)
  BY <1>1, <1>2, ConcatAssociative
<1>4. Append(p, h) = p \o <<h>>
  BY <1>1, AppendIsConcat, Zenon
<1>5. Append(p, h) \o u = p \o q
  BY <1>1, <1>3, <1>4, Zenon
<1> QED BY <1>5 DEF h, u

LEMMA ConcatHeadTail ==
    ASSUME NEW p \in Seq(Requests), NEW q \in Seq(Requests), p # <<>>
    PROVE  p \o q # <<>> /\ Head(p \o q) = Head(p) /\ Tail(p \o q) = Tail(p) \o q
<1> DEFINE h == Head(p)
           u == Tail(p)
<1>1. h \in Requests /\ u \in Seq(Requests) /\ p = <<h>> \o u
  BY HeadTailProperties, HeadTailConcat
<1> HIDE DEF h, u
<1>2. <<h>> \in Seq(Requests) /\ u \o q \in Seq(Requests)
  BY <1>1, ConcatProperties
<1>3. (<<h>> \o u) \o q = <<h>> \o (u \o q)
  BY <1>1, <1>2, ConcatAssociative
<1>4. <<h>> \o (u \o q) # <<>> /\ Head(<<h>> \o (u \o q)) = h /\ Tail(<<h>> \o (u \o q)) = u \o q
  BY <1>1, <1>2, ConsFacts, Zenon
<1>5. p \o q = <<h>> \o (u \o q)
  BY <1>1, <1>3, Zenon
<1> QED BY <1>4, <1>5 DEF h, u

(***************************************************************************)
(* What is known of the requests and of the wire, as one value.            *)
(***************************************************************************)
Now == [queue |-> queue, sent |-> inFlight, outcome |-> outcome, asked |-> asked, up |-> up,
        down |-> down, executed |-> executed, current |-> generation, closed |-> closed,
        refused |-> refused]

Outcomes == {"new", "waiting", "answered", "failed"}

States == [queue: Seq(Requests), sent: Seq(Requests), outcome: [Requests -> Outcomes],
           asked: Seq(Requests), up: [Generations -> Seq(Requests)],
           down: [Generations -> Seq(Requests)], executed: Seq(Requests),
           current: Generations, closed: BOOLEAN, refused: BOOLEAN]

\* a was asked for before b.
Prior(s, a, b) == Precedes(s.asked, a, b)

Ordered(s, q) == \A a, b : Precedes(q, a, b) => ~Prior(s, b, a)

\* No request is in two places.
Single(s) ==
    /\ Distinct(s.asked) /\ Distinct(s.queue) /\ Distinct(s.sent) /\ Distinct(s.executed)
    /\ \A r \in Requests : r \in ToSet(s.asked) <=> s.outcome[r] # "new"
    /\ \A r \in ToSet(s.queue) : r \notin ToSet(s.executed)
    /\ \A r \in ToSet(s.executed) : s.outcome[r] # "new"
    /\ \A g \in Generations :
          /\ Distinct(s.up[g])
          /\ \A r \in ToSet(s.up[g]) :
                /\ r \notin ToSet(s.queue) /\ r \notin ToSet(s.executed)
                /\ s.outcome[r] # "new"
                /\ \A h \in Generations \ {g} : r \notin ToSet(s.up[h])

\* What is in flight is what the current connection carries, in that order.
Wired(s) ==
    /\ ~s.closed => s.sent = s.down[s.current] \o s.up[s.current]
    /\ \A g \in Generations :
          /\ \A r \in ToSet(s.down[g]) : r \in ToSet(s.executed)
          /\ g > s.current => s.up[g] = <<>> /\ s.down[g] = <<>>

\* Who waits for an answer waits to be sent or is in flight, unless a frame was dropped;
\* what is on its way over a connection that was given up has failed.
Settling(s) ==
    /\ \A r \in ToSet(s.queue) : s.outcome[r] = "waiting"
    /\ \A r \in ToSet(s.sent) : s.outcome[r] = "waiting"
    /\ s.closed => s.queue = <<>> /\ s.sent = <<>>
    /\ \A g \in Generations : \A r \in ToSet(s.up[g]) :
          g # s.current \/ s.closed => s.outcome[r] = "failed"

\* Who waits to be sent was asked for after whoever was sent, and what the current
\* connection carries after whatever an earlier one still does.
InTurn(s) ==
    /\ Ordered(s, s.queue) /\ Ordered(s, s.sent)
    /\ \A r \in ToSet(s.queue) :
          /\ \A x \in ToSet(s.executed) : ~Prior(s, r, x)
          /\ \A x \in ToSet(s.sent) : ~Prior(s, r, x)
          /\ \A g \in Generations : \A x \in ToSet(s.up[g]) : ~Prior(s, r, x)
    /\ ~s.closed => \A r \in ToSet(s.up[s.current]) :
          /\ \A x \in ToSet(s.executed) : ~Prior(s, r, x)
          /\ \A g \in Generations \ {s.current} : \A x \in ToSet(s.up[g]) : ~Prior(s, r, x)
    /\ \A a, b : Precedes(s.executed, a, b) /\ Prior(s, b, a) => s.outcome[b] = "failed"

Sound(s) ==
    /\ s \in States
    /\ Single(s) /\ Wired(s) /\ Settling(s)
    /\ ~s.refused => InTurn(s)

\* What of a sound state follows for the sequence in flight.
LEMMA SentFacts ==
    ASSUME NEW s, Sound(s), ~s.closed
    PROVE  /\ ToSet(s.sent) = ToSet(s.down[s.current]) \cup ToSet(s.up[s.current])
           /\ \A r \in ToSet(s.sent) : r \notin ToSet(s.queue)
           /\ s.sent = <<>> <=> s.down[s.current] = <<>> /\ s.up[s.current] = <<>>
<1>1. /\ s.down[s.current] \in Seq(Requests) /\ s.up[s.current] \in Seq(Requests)
      /\ s.sent \in Seq(Requests) /\ s.current \in Generations
      /\ s.sent = s.down[s.current] \o s.up[s.current]
  BY DEF Sound, States, Wired
<1>2. ToSet(s.sent) = ToSet(s.down[s.current]) \cup ToSet(s.up[s.current])
  BY <1>1, ConcatFacts
<1>3. \A r \in ToSet(s.sent) : r \notin ToSet(s.queue)
  BY <1>1, <1>2 DEF Sound, Wired, Single
<1>4. s.sent = <<>> <=> s.down[s.current] = <<>> /\ s.up[s.current] = <<>>
  BY <1>1, <1>2, MemberFacts
<1> QED BY <1>2, <1>3, <1>4

(***************************************************************************)
(* What may be done to it.  Every step of either transport is one of       *)
(* these, or a few after one another.                                      *)
(***************************************************************************)
\* A request is made and waits; or it is made and fails at once.
Make(s, r) ==
    [s EXCEPT !.outcome[r] = "waiting", !.asked = Append(@, r), !.queue = Append(@, r)]

MakeFailed(s, r) == [s EXCEPT !.outcome[r] = "failed", !.asked = Append(@, r)]

\* It is sent behind what is in flight.
MakeSent(s, r) ==
    [s EXCEPT !.outcome[r] = "waiting", !.asked = Append(@, r), !.sent = Append(@, r),
              !.up[s.current] = Append(@, r)]

\* The requests p, of those that wait, are sent, and q wait still.
Send(s, p, q) == [s EXCEPT !.queue = q, !.sent = p, !.up[s.current] = p]

\* A frame is dropped.
Drop(s, q) == [s EXCEPT !.queue = q, !.refused = TRUE]

\* A request that is not in flight fails, and q wait still.
Fail(s, r, q) == [s EXCEPT !.queue = q, !.outcome[r] = "failed"]

\* The oldest in flight is answered.
Answer(s) ==
    [s EXCEPT !.outcome[Head(s.sent)] = "answered", !.sent = Tail(@), !.down[s.current] = Tail(@)]

\* The connection is given up, and what it had in flight fails.
Renew(s) ==
    [s EXCEPT !.outcome = Settled(@, ToSet(s.sent), "failed"), !.sent = <<>>,
              !.current = s.current + 1]

\* Everyone who waits to be sent or is in flight fails, and maybe more who wait do.
FailAll(s, R, c) ==
    [s EXCEPT !.outcome = Settled(@, R, "failed"), !.queue = <<>>, !.sent = <<>>, !.closed = c]

\* The host takes the next frame of a connection; what is on its way over one is lost.
Execute(s, g) ==
    [s EXCEPT !.executed = Append(@, Head(s.up[g])), !.up[g] = Tail(@),
              !.down[g] = Append(@, Head(s.up[g]))]

Forget(s, g) == [s EXCEPT !.up[g] = <<>>, !.down[g] = <<>>]

LEMMA SoundMembers ==
    ASSUME NEW s, Sound(s)
    PROVE  /\ s.current \in Generations
           /\ ToSet(s.asked) \subseteq Requests /\ ToSet(s.queue) \subseteq Requests
           /\ ToSet(s.sent) \subseteq Requests /\ ToSet(s.executed) \subseteq Requests
           /\ \A g \in Generations :
                 ToSet(s.up[g]) \subseteq Requests /\ ToSet(s.down[g]) \subseteq Requests
           /\ \A a, b : Prior(s, a, b) => a \in ToSet(s.asked) /\ b \in ToSet(s.asked)
           /\ \A a, b : Precedes(s.queue, a, b) => a \in ToSet(s.queue) /\ b \in ToSet(s.queue)
           /\ \A a, b : Precedes(s.sent, a, b) => a \in ToSet(s.sent) /\ b \in ToSet(s.sent)
           /\ \A a, b : Precedes(s.executed, a, b) => a \in ToSet(s.executed) /\ b \in ToSet(s.executed)
BY MemberFacts DEF Sound, States, Prior

\* A request that is not made yet is nowhere.
LEMMA NewIsNowhere ==
    ASSUME NEW s, Sound(s), NEW r \in Requests, s.outcome[r] = "new"
    PROVE  /\ r \notin ToSet(s.asked) /\ r \notin ToSet(s.queue) /\ r \notin ToSet(s.executed)
           /\ r \notin ToSet(s.sent)
           /\ \A g \in Generations : r \notin ToSet(s.up[g])
           /\ \A x : ~Prior(s, r, x) /\ ~Prior(s, x, r)
BY SoundMembers DEF Sound, Single, Settling

LEMMA MakeSound ==
    ASSUME NEW s, NEW r \in Requests, Sound(s), ~s.closed, s.outcome[r] = "new"
    PROVE  Sound(Make(s, r))
<1> DEFINE t == Make(s, r)
<1>1. /\ s \in States /\ t.sent = s.sent /\ t.up = s.up /\ t.down = s.down
      /\ t.executed = s.executed /\ t.current = s.current /\ t.closed = s.closed
      /\ t.refused = s.refused
      /\ t.outcome = [s.outcome EXCEPT ![r] = "waiting"]
      /\ t.asked = Append(s.asked, r) /\ t.queue = Append(s.queue, r)
  BY DEF Make, States, Sound
<1>2. t \in States
  BY AppendProperties DEF Make, States, Sound, Outcomes
<1> HIDE DEF t
<1>3. /\ ToSet(t.asked) = ToSet(s.asked) \cup {r} /\ ToSet(t.queue) = ToSet(s.queue) \cup {r}
      /\ \A a, b : Prior(t, a, b) <=> Prior(s, a, b) \/ (a \in ToSet(s.asked) /\ b = r)
      /\ \A a, b : Precedes(t.queue, a, b) <=> Precedes(s.queue, a, b) \/ (a \in ToSet(s.queue) /\ b = r)
  <2>1. s.asked \in Seq(Requests) /\ s.queue \in Seq(Requests)
    BY <1>1 DEF States
  <2>2. /\ ToSet(Append(s.asked, r)) = ToSet(s.asked) \cup {r}
        /\ \A a, b : Precedes(Append(s.asked, r), a, b) <=>
              Precedes(s.asked, a, b) \/ (a \in ToSet(s.asked) /\ b = r)
    BY <2>1, AppendFacts, Zenon
  <2>3. /\ ToSet(Append(s.queue, r)) = ToSet(s.queue) \cup {r}
        /\ \A a, b : Precedes(Append(s.queue, r), a, b) <=>
              Precedes(s.queue, a, b) \/ (a \in ToSet(s.queue) /\ b = r)
    BY <2>1, AppendFacts, Zenon
  <2> QED BY <1>1, <2>2, <2>3 DEF Prior
<1>4. /\ r \notin ToSet(s.asked) /\ r \notin ToSet(s.queue) /\ r \notin ToSet(s.executed)
      /\ r \notin ToSet(s.sent)
      /\ \A g \in Generations : r \notin ToSet(s.up[g])
      /\ \A x : ~Prior(s, r, x) /\ ~Prior(s, x, r)
      /\ \A x \in Requests : x # r => t.outcome[x] = s.outcome[x]
      /\ t.outcome[r] = "waiting"
  BY <1>1, NewIsNowhere DEF States
<1>5. /\ ToSet(s.queue) \subseteq Requests /\ ToSet(s.sent) \subseteq Requests
      /\ ToSet(s.executed) \subseteq Requests
      /\ \A g \in Generations : ToSet(s.up[g]) \subseteq Requests
      /\ s.current \in Generations
      /\ \A a, b : Precedes(s.queue, a, b) => a \in ToSet(s.queue) /\ b \in ToSet(s.queue)
      /\ \A a, b : Precedes(s.sent, a, b) => a \in ToSet(s.sent) /\ b \in ToSet(s.sent)
      /\ \A a, b : Precedes(s.executed, a, b) => a \in ToSet(s.executed) /\ b \in ToSet(s.executed)
  BY SoundMembers
<1>6. Single(t)
  <2>1. Distinct(t.asked)
    BY <1>3, <1>4 DEF Sound, Single, Distinct, Prior
  <2>2. Distinct(t.queue)
    BY <1>3, <1>4 DEF Sound, Single, Distinct
  <2>3. \A x \in Requests : x \in ToSet(t.asked) <=> t.outcome[x] # "new"
    BY <1>3, <1>4 DEF Sound, Single
  <2>4. \A g \in Generations : \A x \in ToSet(t.up[g]) : x \notin ToSet(t.queue) /\ t.outcome[x] # "new"
    BY <1>1, <1>3, <1>4, <1>5 DEF Sound, Single
  <2>5. \A x \in ToSet(t.queue) : x \notin ToSet(t.executed)
    BY <1>1, <1>3, <1>4 DEF Sound, Single
  <2>6. \A x \in ToSet(t.executed) : t.outcome[x] # "new"
    BY <1>1, <1>4, <1>5 DEF Sound, Single
  <2> QED BY <1>1, <2>1, <2>2, <2>3, <2>4, <2>5, <2>6 DEF Sound, Single
<1>7. Wired(t)
  BY <1>1 DEF Sound, Wired
<1>8. Settling(t)
  BY <1>1, <1>3, <1>4, <1>5 DEF Sound, Settling
<1>9. ASSUME ~t.refused PROVE InTurn(t)
  <2>0. InTurn(s)
    BY <1>1, <1>9 DEF Sound
  <2>1. Ordered(t, t.queue)
    BY <2>0, <1>3, <1>4, <1>5 DEF InTurn, Ordered
  <2>2. Ordered(t, t.sent)
    BY <2>0, <1>1, <1>3, <1>4, <1>5 DEF InTurn, Ordered
  <2>4. \A q \in ToSet(t.queue) :
          /\ \A x \in ToSet(t.executed) : ~Prior(t, q, x)
          /\ \A x \in ToSet(t.sent) : ~Prior(t, q, x)
          /\ \A g \in Generations : \A x \in ToSet(t.up[g]) : ~Prior(t, q, x)
    BY <2>0, <1>1, <1>3, <1>4 DEF InTurn
  <2>5. ~t.closed => \A q \in ToSet(t.up[t.current]) :
          /\ \A x \in ToSet(t.executed) : ~Prior(t, q, x)
          /\ \A g \in Generations \ {t.current} : \A x \in ToSet(t.up[g]) : ~Prior(t, q, x)
    BY <2>0, <1>1, <1>3, <1>4 DEF InTurn
  <2>6. \A a, b : Precedes(t.executed, a, b) /\ Prior(t, b, a) => t.outcome[b] = "failed"
    BY <2>0, <1>1, <1>3, <1>4, <1>5 DEF InTurn
  <2> QED BY <2>1, <2>2, <2>4, <2>5, <2>6 DEF InTurn
<1> QED BY <1>2, <1>6, <1>7, <1>8, <1>9 DEF Sound, t

LEMMA MakeFailedSound ==
    ASSUME NEW s, NEW r \in Requests, Sound(s), s.outcome[r] = "new"
    PROVE  Sound(MakeFailed(s, r))
<1> DEFINE t == MakeFailed(s, r)
<1>1. /\ s \in States /\ t.sent = s.sent /\ t.up = s.up /\ t.down = s.down
      /\ t.executed = s.executed /\ t.current = s.current /\ t.closed = s.closed
      /\ t.refused = s.refused /\ t.queue = s.queue
      /\ t.outcome = [s.outcome EXCEPT ![r] = "failed"]
      /\ t.asked = Append(s.asked, r)
  BY DEF MakeFailed, States, Sound
<1>2. t \in States
  BY AppendProperties DEF MakeFailed, States, Sound, Outcomes
<1> HIDE DEF t
<1>3. /\ ToSet(t.asked) = ToSet(s.asked) \cup {r}
      /\ \A a, b : Prior(t, a, b) <=> Prior(s, a, b) \/ (a \in ToSet(s.asked) /\ b = r)
  <2>1. s.asked \in Seq(Requests)
    BY <1>1 DEF States
  <2>2. /\ ToSet(Append(s.asked, r)) = ToSet(s.asked) \cup {r}
        /\ \A a, b : Precedes(Append(s.asked, r), a, b) <=>
              Precedes(s.asked, a, b) \/ (a \in ToSet(s.asked) /\ b = r)
    BY <2>1, AppendFacts, Zenon
  <2> QED BY <1>1, <2>2 DEF Prior
<1>4. /\ r \notin ToSet(s.asked) /\ r \notin ToSet(s.queue) /\ r \notin ToSet(s.executed)
      /\ r \notin ToSet(s.sent)
      /\ \A g \in Generations : r \notin ToSet(s.up[g])
      /\ \A x : ~Prior(s, r, x) /\ ~Prior(s, x, r)
  BY NewIsNowhere
<1>5. (\A x \in Requests : x # r => t.outcome[x] = s.outcome[x]) /\ t.outcome[r] = "failed"
  BY <1>1 DEF States
<1>m. /\ s.current \in Generations
      /\ ToSet(s.asked) \subseteq Requests /\ ToSet(s.queue) \subseteq Requests
      /\ ToSet(s.sent) \subseteq Requests /\ ToSet(s.executed) \subseteq Requests
      /\ \A g \in Generations : ToSet(s.up[g]) \subseteq Requests
      /\ \A a, b : Precedes(s.queue, a, b) => a \in ToSet(s.queue) /\ b \in ToSet(s.queue)
      /\ \A a, b : Precedes(s.sent, a, b) => a \in ToSet(s.sent) /\ b \in ToSet(s.sent)
      /\ \A a, b : Precedes(s.executed, a, b) => a \in ToSet(s.executed) /\ b \in ToSet(s.executed)
  BY SoundMembers
<1>6. Single(t)
  <2>1. Distinct(t.asked)
    BY <1>3, <1>4 DEF Sound, Single, Distinct, Prior
  <2>2. \A x \in Requests : x \in ToSet(t.asked) <=> t.outcome[x] # "new"
    BY <1>3, <1>5 DEF Sound, Single
  <2>3. \A g \in Generations : \A x \in ToSet(t.up[g]) : t.outcome[x] # "new"
    BY <1>1, <1>4, <1>5, <1>m DEF Sound, Single
  <2>4. \A x \in ToSet(t.executed) : t.outcome[x] # "new"
    BY <1>1, <1>4, <1>5, <1>m DEF Sound, Single
  <2> QED BY <1>1, <2>1, <2>2, <2>3, <2>4 DEF Sound, Single
<1>7. Wired(t)
  BY <1>1 DEF Sound, Wired
<1>8. Settling(t)
  BY <1>1, <1>4, <1>5, <1>m DEF Sound, Settling
<1>9. ASSUME ~t.refused PROVE InTurn(t)
  <2>0. InTurn(s)
    BY <1>1, <1>9 DEF Sound
  <2>1. Ordered(t, t.queue)
    BY <2>0, <1>1, <1>3, <1>4, <1>m DEF InTurn, Ordered
  <2>2. Ordered(t, t.sent)
    BY <2>0, <1>1, <1>3, <1>4, <1>m DEF InTurn, Ordered
  <2>4. \A q \in ToSet(t.queue) :
          /\ \A x \in ToSet(t.executed) : ~Prior(t, q, x)
          /\ \A x \in ToSet(t.sent) : ~Prior(t, q, x)
          /\ \A g \in Generations : \A x \in ToSet(t.up[g]) : ~Prior(t, q, x)
    BY <2>0, <1>1, <1>3, <1>4 DEF InTurn
  <2>5. ~t.closed => \A q \in ToSet(t.up[t.current]) :
          /\ \A x \in ToSet(t.executed) : ~Prior(t, q, x)
          /\ \A g \in Generations \ {t.current} : \A x \in ToSet(t.up[g]) : ~Prior(t, q, x)
    BY <2>0, <1>1, <1>3, <1>4 DEF InTurn
  <2>6. \A a, b : Precedes(t.executed, a, b) /\ Prior(t, b, a) => t.outcome[b] = "failed"
    BY <2>0, <1>1, <1>3, <1>4, <1>5, <1>m DEF InTurn
  <2> QED BY <2>1, <2>2, <2>4, <2>5, <2>6 DEF InTurn
<1> QED BY <1>2, <1>6, <1>7, <1>8, <1>9 DEF Sound, t

LEMMA MakeSentSound ==
    ASSUME NEW s, NEW r \in Requests, Sound(s), s.outcome[r] = "new", ~s.closed,
           ~s.refused => s.queue = <<>>
    PROVE  Sound(MakeSent(s, r))
<1> DEFINE t == MakeSent(s, r)
           c == s.current
<1>1. /\ s \in States /\ t.queue = s.queue /\ t.down = s.down
      /\ t.executed = s.executed /\ t.current = c /\ t.closed = s.closed
      /\ t.refused = s.refused
      /\ t.outcome = [s.outcome EXCEPT ![r] = "waiting"]
      /\ t.asked = Append(s.asked, r) /\ t.sent = Append(s.sent, r)
      /\ t.up = [s.up EXCEPT ![c] = Append(@, r)]
  BY DEF MakeSent, States, Sound
<1>2. t \in States
  BY AppendProperties DEF MakeSent, States, Sound, Outcomes
<1> HIDE DEF t
<1>3. /\ ToSet(t.asked) = ToSet(s.asked) \cup {r}
      /\ \A a, b : Prior(t, a, b) <=> Prior(s, a, b) \/ (a \in ToSet(s.asked) /\ b = r)
      /\ ToSet(t.sent) = ToSet(s.sent) \cup {r}
      /\ \A a, b : Precedes(t.sent, a, b) <=> Precedes(s.sent, a, b) \/ (a \in ToSet(s.sent) /\ b = r)
      /\ ToSet(t.up[c]) = ToSet(s.up[c]) \cup {r}
      /\ \A a, b : Precedes(t.up[c], a, b) <=> Precedes(s.up[c], a, b) \/ (a \in ToSet(s.up[c]) /\ b = r)
  <2>1. s.asked \in Seq(Requests) /\ s.sent \in Seq(Requests) /\ s.up[c] \in Seq(Requests)
        /\ c \in Generations
    BY <1>1 DEF States
  <2>2. ASSUME NEW q \in Seq(Requests)
        PROVE  /\ ToSet(Append(q, r)) = ToSet(q) \cup {r}
               /\ \A a, b : Precedes(Append(q, r), a, b) <=>
                     Precedes(q, a, b) \/ (a \in ToSet(q) /\ b = r)
    BY <2>2, AppendFacts, Zenon
  <2>3. t.up[c] = Append(s.up[c], r)
    BY <1>1, <2>1 DEF States
  <2>4. /\ ToSet(t.asked) = ToSet(s.asked) \cup {r}
        /\ \A a, b : Prior(t, a, b) <=> Prior(s, a, b) \/ (a \in ToSet(s.asked) /\ b = r)
    BY <1>1, <2>1, <2>2 DEF Prior
  <2>5. /\ ToSet(t.sent) = ToSet(s.sent) \cup {r}
        /\ \A a, b : Precedes(t.sent, a, b) <=> Precedes(s.sent, a, b) \/ (a \in ToSet(s.sent) /\ b = r)
    BY <1>1, <2>1, <2>2
  <2>6. /\ ToSet(t.up[c]) = ToSet(s.up[c]) \cup {r}
        /\ \A a, b : Precedes(t.up[c], a, b) <=> Precedes(s.up[c], a, b) \/ (a \in ToSet(s.up[c]) /\ b = r)
    BY <2>1, <2>2, <2>3
  <2> QED BY <2>4, <2>5, <2>6
<1>4. /\ r \notin ToSet(s.asked) /\ r \notin ToSet(s.queue) /\ r \notin ToSet(s.executed)
      /\ r \notin ToSet(s.sent)
      /\ \A g \in Generations : r \notin ToSet(s.up[g])
      /\ \A x : ~Prior(s, r, x) /\ ~Prior(s, x, r)
  BY NewIsNowhere
<1>5. /\ \A x \in Requests : x # r => t.outcome[x] = s.outcome[x]
      /\ t.outcome[r] = "waiting"
      /\ \A g \in Generations : g # c => t.up[g] = s.up[g]
  BY <1>1 DEF States
<1>m. /\ c \in Generations
      /\ ToSet(s.asked) \subseteq Requests /\ ToSet(s.queue) \subseteq Requests
      /\ ToSet(s.sent) \subseteq Requests /\ ToSet(s.executed) \subseteq Requests
      /\ \A g \in Generations : ToSet(s.up[g]) \subseteq Requests
      /\ \A a, b : Precedes(s.queue, a, b) => a \in ToSet(s.queue) /\ b \in ToSet(s.queue)
      /\ \A a, b : Precedes(s.sent, a, b) => a \in ToSet(s.sent) /\ b \in ToSet(s.sent)
      /\ \A a, b : Precedes(s.executed, a, b) => a \in ToSet(s.executed) /\ b \in ToSet(s.executed)
  BY SoundMembers
<1> HIDE DEF c
<1>6. Single(t)
  <2>1. Distinct(t.asked)
    BY <1>3, <1>4 DEF Sound, Single, Distinct, Prior
  <2>2. Distinct(t.sent)
    BY <1>3, <1>4 DEF Sound, Single, Distinct
  <2>3. \A x \in Requests : x \in ToSet(t.asked) <=> t.outcome[x] # "new"
    BY <1>3, <1>5 DEF Sound, Single
  <2>4. \A x \in ToSet(t.executed) : t.outcome[x] # "new"
    BY <1>1, <1>4, <1>5, <1>m DEF Sound, Single
  <2>5. ASSUME NEW g \in Generations PROVE Distinct(t.up[g])
    <3>1. CASE g = c BY <3>1, <1>3, <1>4 DEF Sound, Single, Distinct
    <3>2. CASE g # c BY <3>2, <1>5 DEF Sound, Single
    <3> QED BY <3>1, <3>2
  <2>6. ASSUME NEW g \in Generations, NEW x \in ToSet(t.up[g])
        PROVE  /\ x \notin ToSet(t.queue) /\ x \notin ToSet(t.executed)
               /\ t.outcome[x] # "new"
               /\ \A h \in Generations \ {g} : x \notin ToSet(t.up[h])
    <3>1. x \in ToSet(s.up[g]) \/ (x = r /\ g = c)
      BY <1>3, <1>5
    <3>2. x \notin ToSet(t.queue) /\ x \notin ToSet(t.executed) /\ t.outcome[x] # "new"
      BY <3>1, <1>1, <1>4, <1>5, <1>m DEF Sound, Single
    <3>3. ASSUME NEW h \in Generations \ {g}, x \in ToSet(t.up[h]) PROVE FALSE
      <4>1. x \in ToSet(s.up[h]) \/ (x = r /\ h = c)
        BY <3>3, <1>3, <1>5
      <4> QED BY <3>1, <4>1, <1>4 DEF Sound, Single
    <3> QED BY <3>2, <3>3
  <2> QED BY <1>1, <2>1, <2>2, <2>3, <2>4, <2>5, <2>6 DEF Sound, Single
<1>7. Wired(t)
  <2>1. t.sent = t.down[c] \o t.up[c]
    <3>1. s.sent = s.down[c] \o s.up[c] BY DEF Sound, Wired, c
    <3>2. s.sent \in Seq(Requests) /\ s.down[c] \in Seq(Requests) /\ s.up[c] \in Seq(Requests)
      BY <1>1, <1>m DEF States
    <3>3. t.up[c] = Append(s.up[c], r) BY <1>1, <1>m DEF States
    <3>4. Append(s.down[c] \o s.up[c], r) = s.down[c] \o Append(s.up[c], r)
      BY <3>2, AppendOfConcat
    <3> QED BY <1>1, <3>1, <3>3, <3>4
  <2>2. ASSUME NEW g \in Generations, g > c PROVE t.up[g] = <<>> /\ t.down[g] = <<>>
    <3>1. g # c BY <2>2, <1>m DEF Generations
    <3> QED BY <2>2, <3>1, <1>1, <1>5 DEF Sound, Wired, c
  <2> QED BY <1>1, <2>1, <2>2 DEF Sound, Wired
<1>8. Settling(t)
  <2>1. \A g \in Generations : \A x \in ToSet(t.up[g]) :
          g # t.current \/ t.closed => t.outcome[x] = "failed"
    <3>1. ASSUME NEW g \in Generations, NEW x \in ToSet(t.up[g]), g # c PROVE t.outcome[x] = "failed"
      <4>1. x \in ToSet(s.up[g]) /\ x # r /\ x \in Requests BY <3>1, <1>4, <1>5, <1>m
      <4> QED BY <3>1, <4>1, <1>5 DEF Sound, Settling, c
    <3> QED BY <3>1, <1>1
  <2> QED BY <2>1, <1>1, <1>3, <1>4, <1>5, <1>m DEF Sound, Settling
<1>9. ASSUME ~t.refused PROVE InTurn(t)
  <2>0. InTurn(s) /\ ToSet(t.queue) = {} /\ \A a, b : ~Precedes(t.queue, a, b)
    BY <1>1, <1>9, EmptyFacts DEF Sound
  <2>2. Ordered(t, t.sent)
    BY <2>0, <1>1, <1>3, <1>4, <1>m DEF InTurn, Ordered
  <2>5. ASSUME NEW q \in ToSet(t.up[c])
        PROVE  /\ \A x \in ToSet(t.executed) : ~Prior(t, q, x)
               /\ \A g \in Generations \ {c} : \A x \in ToSet(t.up[g]) : ~Prior(t, q, x)
    <3>1. q \in ToSet(s.up[c]) \/ q = r BY <1>3
    <3>2. \A x \in ToSet(t.executed) : ~Prior(t, q, x)
      BY <2>0, <3>1, <1>1, <1>3, <1>4 DEF InTurn, c
    <3>3. \A g \in Generations \ {c} : \A x \in ToSet(t.up[g]) : ~Prior(t, q, x)
      BY <2>0, <3>1, <1>3, <1>4, <1>5 DEF InTurn, c
    <3> QED BY <3>2, <3>3
  <2>6. \A a, b : Precedes(t.executed, a, b) /\ Prior(t, b, a) => t.outcome[b] = "failed"
    BY <2>0, <1>1, <1>3, <1>4, <1>5, <1>m DEF InTurn
  <2> QED BY <1>1, <2>0, <2>2, <2>5, <2>6 DEF InTurn, Ordered
<1> QED BY <1>2, <1>6, <1>7, <1>8, <1>9 DEF Sound, t

LEMMA SendSound ==
    ASSUME NEW s, NEW p \in Seq(Requests), NEW q \in Seq(Requests), Sound(s), ~s.closed,
           s.queue = p \o q, s.sent = <<>>
    PROVE  Sound(Send(s, p, q))
<1> DEFINE t == Send(s, p, q)
           c == s.current
<1>1. /\ s \in States /\ c \in Generations /\ t.queue = q /\ t.sent = p /\ t.down = s.down
      /\ t.executed = s.executed /\ t.current = c /\ t.closed = s.closed /\ t.refused = s.refused
      /\ t.outcome = s.outcome /\ t.asked = s.asked
      /\ t.up[c] = p /\ \A g \in Generations : g # c => t.up[g] = s.up[g]
  BY DEF Send, States, Sound
<1>2. t \in States
  BY DEF Send, States, Sound
<1>3. s.down[c] = <<>> /\ s.up[c] = <<>>
  BY SentFacts
<1> HIDE DEF t, c
<1>4. /\ ToSet(s.queue) = ToSet(p) \cup ToSet(q)
      /\ \A a, b : Precedes(s.queue, a, b) <=>
            Precedes(p, a, b) \/ Precedes(q, a, b) \/ (a \in ToSet(p) /\ b \in ToSet(q))
  BY ConcatFacts
<1>m. ToSet(s.queue) \subseteq Requests
  BY SoundMembers
<1>5. Single(t)
  <2>1. Distinct(p) /\ Distinct(q) /\ \A x \in ToSet(p) : x \notin ToSet(q)
    BY <1>4 DEF Sound, Single, Distinct
  <2>2. /\ Distinct(t.asked) /\ Distinct(t.queue) /\ Distinct(t.sent) /\ Distinct(t.executed)
        /\ \A r \in Requests : r \in ToSet(t.asked) <=> t.outcome[r] # "new"
        /\ \A r \in ToSet(t.queue) : r \notin ToSet(t.executed)
        /\ \A r \in ToSet(t.executed) : t.outcome[r] # "new"
    BY <2>1, <1>1, <1>4 DEF Sound, Single
  <2>3. \A r \in ToSet(p) : /\ r \notin ToSet(t.executed) /\ t.outcome[r] # "new"
                            /\ \A h \in Generations : r \notin ToSet(s.up[h])
    BY <1>1, <1>4 DEF Sound, Single, Settling
  <2>4. ASSUME NEW g \in Generations
        PROVE  /\ Distinct(t.up[g])
               /\ \A r \in ToSet(t.up[g]) :
                    /\ r \notin ToSet(t.queue) /\ r \notin ToSet(t.executed)
                    /\ t.outcome[r] # "new"
                    /\ \A h \in Generations \ {g} : r \notin ToSet(t.up[h])
    <3>1. CASE g = c
      BY <3>1, <2>1, <2>3, <1>1
    <3>2. CASE g # c
      <4>1. t.up[g] = s.up[g] BY <3>2, <1>1
      <4>2. ASSUME NEW r \in ToSet(s.up[g])
            PROVE  /\ r \notin ToSet(t.queue) /\ r \notin ToSet(t.executed)
                   /\ t.outcome[r] # "new" /\ r \notin ToSet(p)
                   /\ \A h \in Generations \ {g} : r \notin ToSet(s.up[h])
        BY <4>2, <1>1, <1>4 DEF Sound, Single
      <4>3. Distinct(s.up[g]) BY DEF Sound, Single
      <4>4. ASSUME NEW r \in ToSet(s.up[g]), NEW h \in Generations \ {g}
            PROVE  r \notin ToSet(t.up[h])
        BY <4>2, <4>4, <1>1
      <4> QED BY <4>1, <4>2, <4>3, <4>4
    <3> QED BY <3>1, <3>2
  <2> QED BY <2>2, <2>4 DEF Single
<1>6. Wired(t)
  <2>1. <<>> \o p = p
    BY ConcatEmptySeq
  <2>2. ASSUME NEW g \in Generations, g > c PROVE t.up[g] = <<>> /\ t.down[g] = <<>>
    <3>1. g # c BY <2>2, <1>1 DEF Generations
    <3> QED BY <2>2, <3>1, <1>1 DEF Sound, Wired, c
  <2> QED BY <2>1, <2>2, <1>1, <1>3 DEF Sound, Wired
<1>7. Settling(t)
  <2>1. ASSUME NEW g \in Generations, NEW r \in ToSet(t.up[g]), g # t.current \/ t.closed
        PROVE  t.outcome[r] = "failed"
    BY <2>1, <1>1 DEF Sound, Settling, c
  <2> QED BY <2>1, <1>1, <1>4 DEF Sound, Settling
<1>8. ASSUME ~t.refused PROVE InTurn(t)
  <2>0. InTurn(s) /\ \A a, b : Prior(t, a, b) <=> Prior(s, a, b)
    BY <1>1, <1>8 DEF Sound, Prior
  <2>1. Ordered(t, t.queue) /\ Ordered(t, t.sent)
    BY <2>0, <1>1, <1>4 DEF InTurn, Ordered
  <2>2. ASSUME NEW r \in ToSet(s.queue)
        PROVE  /\ \A x \in ToSet(t.executed) : ~Prior(t, r, x)
               /\ \A g \in Generations : \A x \in ToSet(s.up[g]) : ~Prior(t, r, x)
    BY <2>0, <2>2, <1>1 DEF InTurn
  <2>3. ASSUME NEW r \in ToSet(q), NEW x \in ToSet(p) PROVE ~Prior(t, r, x)
    BY <2>0, <2>3, <1>4 DEF InTurn, Ordered
  <2>4. \A r \in ToSet(t.queue) :
          /\ \A x \in ToSet(t.executed) : ~Prior(t, r, x)
          /\ \A x \in ToSet(t.sent) : ~Prior(t, r, x)
          /\ \A g \in Generations : \A x \in ToSet(t.up[g]) : ~Prior(t, r, x)
    BY <2>2, <2>3, <1>1, <1>4
  <2>5. ~t.closed => \A r \in ToSet(t.up[t.current]) :
          /\ \A x \in ToSet(t.executed) : ~Prior(t, r, x)
          /\ \A g \in Generations \ {t.current} : \A x \in ToSet(t.up[g]) : ~Prior(t, r, x)
    BY <2>2, <1>1, <1>4
  <2>6. \A a, b : Precedes(t.executed, a, b) /\ Prior(t, b, a) => t.outcome[b] = "failed"
    BY <2>0, <1>1 DEF InTurn
  <2> QED BY <2>1, <2>4, <2>5, <2>6 DEF InTurn
<1> QED BY <1>2, <1>5, <1>6, <1>7, <1>8 DEF Sound, t

\* What is left of the queue is part of it.
LEMMA DropSound ==
    ASSUME NEW s, NEW q \in Seq(Requests), Sound(s), ~s.closed,
           ToSet(q) \subseteq ToSet(s.queue), Distinct(q)
    PROVE  Sound(Drop(s, q))
<1> DEFINE t == Drop(s, q)
<1>1. /\ s \in States /\ t.queue = q /\ t.sent = s.sent /\ t.down = s.down /\ t.up = s.up
      /\ t.executed = s.executed /\ t.current = s.current /\ t.closed = s.closed
      /\ t.refused = TRUE /\ t.outcome = s.outcome /\ t.asked = s.asked
  BY DEF Drop, States, Sound
<1>2. t \in States
  BY DEF Drop, States, Sound
<1> HIDE DEF t
<1>3. Single(t)
  BY <1>1 DEF Sound, Single
<1>4. Wired(t)
  BY <1>1 DEF Sound, Wired
<1>5. Settling(t)
  BY <1>1 DEF Sound, Settling
<1> QED BY <1>1, <1>2, <1>3, <1>4, <1>5 DEF Sound, t

LEMMA FailSound ==
    ASSUME NEW s, NEW r \in Requests, NEW q \in Seq(Requests), Sound(s),
           s.outcome[r] = "waiting", r \notin ToSet(s.sent),
           ToSet(q) \subseteq ToSet(s.queue), r \notin ToSet(q),
           \A a, b : Precedes(q, a, b) => Precedes(s.queue, a, b)
    PROVE  Sound(Fail(s, r, q))
<1> DEFINE t == Fail(s, r, q)
<1>1. /\ s \in States /\ t.queue = q /\ t.sent = s.sent /\ t.down = s.down
      /\ t.up = s.up /\ t.executed = s.executed /\ t.current = s.current /\ t.closed = s.closed
      /\ t.refused = s.refused /\ t.asked = s.asked
      /\ t.outcome = [s.outcome EXCEPT ![r] = "failed"]
  BY DEF Fail, States, Sound
<1>2. t \in States
  BY DEF Fail, States, Sound, Outcomes
<1> HIDE DEF t
<1>3. /\ t.queue \in Seq(Requests)
      /\ ToSet(t.queue) \subseteq ToSet(s.queue) /\ r \notin ToSet(t.queue)
      /\ \A a, b : Precedes(t.queue, a, b) => Precedes(s.queue, a, b)
  BY <1>1
<1>4. t.outcome[r] = "failed" /\ \A x \in Requests : x # r => t.outcome[x] = s.outcome[x]
  BY <1>1 DEF States
<1>m. /\ ToSet(s.queue) \subseteq Requests /\ ToSet(s.sent) \subseteq Requests
      /\ ToSet(s.executed) \subseteq Requests
      /\ \A g \in Generations : ToSet(s.up[g]) \subseteq Requests
      /\ \A a, b : Precedes(s.executed, a, b) => a \in ToSet(s.executed) /\ b \in ToSet(s.executed)
  BY SoundMembers
<1>5. Single(t)
  <2>1. Distinct(t.queue)
    BY <1>3 DEF Sound, Single, Distinct
  <2>2. \A x \in Requests : t.outcome[x] # "new" <=> s.outcome[x] # "new"
    BY <1>4
  <2>3. /\ \A x \in Requests : x \in ToSet(t.asked) <=> t.outcome[x] # "new"
        /\ \A x \in ToSet(t.queue) : x \notin ToSet(t.executed)
        /\ \A x \in ToSet(t.executed) : t.outcome[x] # "new"
    BY <2>2, <1>1, <1>3, <1>m DEF Sound, Single
  <2>4. ASSUME NEW g \in Generations, NEW x \in ToSet(t.up[g])
        PROVE  x \notin ToSet(t.queue) /\ x \notin ToSet(t.executed) /\ t.outcome[x] # "new"
    BY <2>2, <2>4, <1>1, <1>3, <1>m DEF Sound, Single
  <2> QED BY <2>1, <2>3, <2>4, <1>1 DEF Sound, Single
<1>6. Wired(t)
  BY <1>1 DEF Sound, Wired
<1>7. Settling(t)
  <2>1. \A x \in ToSet(t.queue) : t.outcome[x] = "waiting"
    BY <1>3, <1>4, <1>m DEF Sound, Settling
  <2>2. \A x \in ToSet(t.sent) : t.outcome[x] = "waiting"
    BY <1>1, <1>4, <1>m DEF Sound, Settling
  <2>3. t.closed => t.queue = <<>> /\ t.sent = <<>>
    <3>1. ASSUME s.queue = <<>> PROVE t.queue = <<>>
      BY <3>1, <1>3, MemberFacts, EmptyFacts
    <3> QED BY <3>1, <1>1 DEF Sound, Settling
  <2>4. ASSUME NEW g \in Generations, NEW x \in ToSet(t.up[g]), g # t.current \/ t.closed
        PROVE  t.outcome[x] = "failed"
    BY <2>4, <1>1, <1>4, <1>m DEF Sound, Settling
  <2> QED BY <2>1, <2>2, <2>3, <2>4 DEF Settling
<1>8. ASSUME ~t.refused PROVE InTurn(t)
  <2>0. InTurn(s) /\ \A a, b : Prior(t, a, b) <=> Prior(s, a, b)
    BY <1>1, <1>8 DEF Sound, Prior
  <2>1. Ordered(t, t.queue) /\ Ordered(t, t.sent)
    BY <2>0, <1>1, <1>3 DEF InTurn, Ordered
  <2>2. \A x \in ToSet(t.queue) :
          /\ \A y \in ToSet(t.executed) : ~Prior(t, x, y)
          /\ \A y \in ToSet(t.sent) : ~Prior(t, x, y)
          /\ \A g \in Generations : \A y \in ToSet(t.up[g]) : ~Prior(t, x, y)
    BY <2>0, <1>1, <1>3 DEF InTurn
  <2>3. \A a, b : Precedes(t.executed, a, b) /\ Prior(t, b, a) => t.outcome[b] = "failed"
    BY <2>0, <1>1, <1>4, <1>m DEF InTurn
  <2>4. ~t.closed => \A x \in ToSet(t.up[t.current]) :
          /\ \A y \in ToSet(t.executed) : ~Prior(t, x, y)
          /\ \A g \in Generations \ {t.current} : \A y \in ToSet(t.up[g]) : ~Prior(t, x, y)
    BY <2>0, <1>1 DEF InTurn
  <2> QED BY <2>1, <2>2, <2>3, <2>4 DEF InTurn
<1> QED BY <1>2, <1>5, <1>6, <1>7, <1>8 DEF Sound, t

\* A result is the result of the request that is longest in flight.
LEMMA AnswerFacts ==
    ASSUME NEW s, Sound(s), ~s.closed, s.down[s.current] # <<>>
    PROVE  /\ s.sent # <<>> /\ Head(s.sent) = Head(s.down[s.current])
           /\ Tail(s.sent) = Tail(s.down[s.current]) \o s.up[s.current]
           /\ Head(s.sent) \in ToSet(s.executed) /\ Head(s.sent) \in Requests
           /\ Tail(s.sent) \in Seq(Requests) /\ Tail(s.down[s.current]) \in Seq(Requests)
           /\ s.outcome[Head(s.sent)] = "waiting"
<1> DEFINE p == s.down[s.current]
           q == s.up[s.current]
<1>1. /\ s.current \in Generations /\ p \in Seq(Requests) /\ q \in Seq(Requests) /\ p # <<>>
      /\ s.sent = p \o q /\ s.sent \in Seq(Requests)
      /\ \A r \in ToSet(p) : r \in ToSet(s.executed)
      /\ \A r \in ToSet(s.sent) : s.outcome[r] = "waiting"
  BY DEF Sound, States, Wired, Settling
<1> HIDE DEF p, q
<1>2. p \o q # <<>> /\ Head(p \o q) = Head(p) /\ Tail(p \o q) = Tail(p) \o q
  BY <1>1, ConcatHeadTail
<1>3. s.sent # <<>> /\ Head(s.sent) = Head(p) /\ Tail(s.sent) = Tail(p) \o q
  BY <1>1, <1>2
<1>4. Head(p) \in ToSet(p) /\ Head(p) \in Requests /\ Tail(p) \in Seq(Requests)
  BY <1>1, HeadTailFacts
<1>5. Head(s.sent) \in ToSet(s.sent) /\ Tail(s.sent) \in Seq(Requests)
  BY <1>1, <1>3, HeadTailFacts
<1>6. s.outcome[Head(s.sent)] = "waiting" /\ Head(s.sent) \in ToSet(s.executed)
  BY <1>1, <1>3, <1>4, <1>5
<1> QED BY <1>3, <1>4, <1>5, <1>6 DEF p, q

LEMMA AnswerSound ==
    ASSUME NEW s, Sound(s), ~s.closed, s.down[s.current] # <<>>
    PROVE  Sound(Answer(s))
<1> DEFINE t == Answer(s)
           c == s.current
           h == Head(s.sent)
<1>1. /\ s \in States /\ c \in Generations /\ t.queue = s.queue /\ t.up = s.up
      /\ t.executed = s.executed /\ t.current = c /\ t.closed = s.closed /\ t.refused = s.refused
      /\ t.asked = s.asked /\ t.sent = Tail(s.sent)
      /\ t.outcome = [s.outcome EXCEPT ![h] = "answered"]
      /\ t.down[c] = Tail(s.down[c]) /\ \A g \in Generations : g # c => t.down[g] = s.down[g]
  BY DEF Answer, States, Sound
<1>2. /\ s.sent # <<>> /\ h \in Requests /\ h \in ToSet(s.executed) /\ s.outcome[h] = "waiting"
      /\ Tail(s.sent) = Tail(s.down[c]) \o s.up[c]
      /\ Tail(s.sent) \in Seq(Requests) /\ Tail(s.down[c]) \in Seq(Requests)
  BY AnswerFacts
<1>3. t \in States
  BY <1>2 DEF Answer, States, Sound, Outcomes
<1> HIDE DEF t, c
<1>4. /\ ToSet(s.sent) = {h} \cup ToSet(t.sent)
      /\ \A a, b : Precedes(s.sent, a, b) <=> Precedes(t.sent, a, b) \/ (a = h /\ b \in ToSet(t.sent))
  <2>1. s.sent \in Seq(Requests)
    BY <1>1 DEF States
  <2> QED BY <2>1, <1>1, <1>2, HeadTailFacts
<1>5. ToSet(t.down[c]) \subseteq ToSet(s.down[c])
  <2>1. s.down[c] \in Seq(Requests) /\ s.down[c] # <<>>
    BY <1>1 DEF States, c
  <2> QED BY <2>1, <1>1, HeadTailFacts
<1> HIDE DEF h
<1>6. t.outcome[h] = "answered" /\ \A x \in Requests : x # h => t.outcome[x] = s.outcome[x]
  BY <1>1, <1>2 DEF States
<1>m. /\ ToSet(s.queue) \subseteq Requests /\ ToSet(s.sent) \subseteq Requests
      /\ ToSet(s.executed) \subseteq Requests
      /\ \A g \in Generations : ToSet(s.up[g]) \subseteq Requests
      /\ \A a, b : Precedes(s.executed, a, b) => a \in ToSet(s.executed) /\ b \in ToSet(s.executed)
  BY SoundMembers
<1>7. Single(t)
  <2>1. Distinct(t.sent)
    BY <1>4 DEF Sound, Single, Distinct
  <2>2. \A x \in Requests : t.outcome[x] # "new" <=> s.outcome[x] # "new"
    BY <1>2, <1>6
  <2>3. /\ \A x \in Requests : x \in ToSet(t.asked) <=> t.outcome[x] # "new"
        /\ \A x \in ToSet(t.executed) : t.outcome[x] # "new"
    BY <2>2, <1>1, <1>m DEF Sound, Single
  <2>4. ASSUME NEW g \in Generations, NEW x \in ToSet(t.up[g])
        PROVE  x \notin ToSet(t.queue) /\ x \notin ToSet(t.executed) /\ t.outcome[x] # "new"
    BY <2>2, <2>4, <1>1, <1>m DEF Sound, Single
  <2> QED BY <2>1, <2>3, <2>4, <1>1 DEF Sound, Single
<1>8. Wired(t)
  <2>1. \A g \in Generations : \A r \in ToSet(t.down[g]) : r \in ToSet(t.executed)
    BY <1>1, <1>5 DEF Sound, Wired
  <2>2. ASSUME NEW g \in Generations, g > c PROVE t.up[g] = <<>> /\ t.down[g] = <<>>
    <3>1. g # c BY <2>2, <1>1 DEF Generations
    <3> QED BY <2>2, <3>1, <1>1 DEF Sound, Wired, c
  <2> QED BY <2>1, <2>2, <1>1, <1>2 DEF Wired
<1>9. Settling(t)
  <2>1. \A x \in ToSet(t.queue) : t.outcome[x] = "waiting"
    BY <1>1, <1>2, <1>6, <1>m DEF Sound, Settling, Single
  <2>2. \A x \in ToSet(t.sent) : t.outcome[x] = "waiting"
    <3>1. h \notin ToSet(t.sent) BY <1>4 DEF Sound, Single, Distinct
    <3> QED BY <3>1, <1>4, <1>6, <1>m DEF Sound, Settling
  <2>3. ASSUME NEW g \in Generations, NEW x \in ToSet(t.up[g]), g # t.current \/ t.closed
        PROVE  t.outcome[x] = "failed"
    <3>1. s.outcome[x] = "failed" /\ x \in Requests BY <2>3, <1>1, <1>m DEF Sound, Settling, c
    <3> QED BY <3>1, <1>2, <1>6
  <2> QED BY <2>1, <2>2, <2>3, <1>1 DEF Settling
<1>10. ASSUME ~t.refused PROVE InTurn(t)
  <2>0. InTurn(s) /\ \A a, b : Prior(t, a, b) <=> Prior(s, a, b)
    BY <1>1, <1>10 DEF Sound, Prior
  <2>1. Ordered(t, t.queue) /\ Ordered(t, t.sent)
    BY <2>0, <1>1, <1>4 DEF InTurn, Ordered
  <2>2. \A x \in ToSet(t.queue) :
          /\ \A y \in ToSet(t.executed) : ~Prior(t, x, y)
          /\ \A y \in ToSet(t.sent) : ~Prior(t, x, y)
          /\ \A g \in Generations : \A y \in ToSet(t.up[g]) : ~Prior(t, x, y)
    BY <2>0, <1>1, <1>4 DEF InTurn
  <2>3. \A a, b : Precedes(t.executed, a, b) /\ Prior(t, b, a) => t.outcome[b] = "failed"
    BY <2>0, <1>1, <1>2, <1>6, <1>m DEF InTurn
  <2>4. ~t.closed => \A x \in ToSet(t.up[t.current]) :
          /\ \A y \in ToSet(t.executed) : ~Prior(t, x, y)
          /\ \A g \in Generations \ {t.current} : \A y \in ToSet(t.up[g]) : ~Prior(t, x, y)
    BY <2>0, <1>1 DEF InTurn, c
  <2> QED BY <2>1, <2>2, <2>3, <2>4 DEF InTurn
<1> QED BY <1>3, <1>7, <1>8, <1>9, <1>10 DEF Sound, t

LEMMA RenewSound ==
    ASSUME NEW s, Sound(s), ~s.closed, s.current + 1 \in Generations
    PROVE  Sound(Renew(s))
<1> DEFINE t == Renew(s)
           c == s.current
           n == c + 1
<1>1. /\ s \in States /\ c \in Generations /\ t.queue = s.queue /\ t.up = s.up
      /\ t.executed = s.executed /\ t.current = n /\ t.closed = s.closed /\ t.refused = s.refused
      /\ t.asked = s.asked /\ t.sent = <<>> /\ t.down = s.down
      /\ t.outcome = Settled(s.outcome, ToSet(s.sent), "failed")
  BY DEF Renew, States, Sound
<1>2. t \in States
  <2>1. Settled(s.outcome, ToSet(s.sent), "failed") \in [Requests -> Outcomes]
    BY <1>1 DEF States, Outcomes, Settled
  <2> QED BY <1>1, <2>1, EmptySeq DEF Renew, States
<1>3. /\ s.up[n] = <<>> /\ s.down[n] = <<>> /\ ToSet(t.up[n]) = {} /\ ToSet(t.sent) = {}
      /\ \A a, b : ~Precedes(t.sent, a, b)
  <2>1. n > c BY <1>1 DEF Generations
  <2> QED BY <2>1, <1>1, EmptyFacts DEF Sound, Wired
<1>4. \A r \in ToSet(s.up[c]) : r \in ToSet(s.sent)
  BY SentFacts
<1>m. /\ ToSet(s.queue) \subseteq Requests /\ ToSet(s.sent) \subseteq Requests
      /\ ToSet(s.executed) \subseteq Requests
      /\ \A g \in Generations : ToSet(s.up[g]) \subseteq Requests
      /\ \A a, b : Precedes(s.executed, a, b) => a \in ToSet(s.executed) /\ b \in ToSet(s.executed)
      /\ \A r \in ToSet(s.sent) : r \notin ToSet(s.queue)
  BY SoundMembers, SentFacts
<1> HIDE DEF t
<1>5. /\ \A r \in ToSet(s.sent) : t.outcome[r] = "failed"
      /\ \A r \in Requests : r \notin ToSet(s.sent) => t.outcome[r] = s.outcome[r]
      /\ \A r \in Requests : s.outcome[r] = "failed" => t.outcome[r] = "failed"
      /\ \A r \in Requests : t.outcome[r] # "new" <=> s.outcome[r] # "new"
  BY <1>1, <1>m DEF Settled, Sound, Settling
<1>7. Single(t)
  <2>1. Distinct(t.sent)
    BY <1>3 DEF Distinct
  <2>2. /\ \A x \in Requests : x \in ToSet(t.asked) <=> t.outcome[x] # "new"
        /\ \A x \in ToSet(t.executed) : t.outcome[x] # "new"
    BY <1>5, <1>1, <1>m DEF Sound, Single
  <2>3. ASSUME NEW g \in Generations, NEW x \in ToSet(t.up[g])
        PROVE  x \notin ToSet(t.queue) /\ x \notin ToSet(t.executed) /\ t.outcome[x] # "new"
    BY <1>5, <2>3, <1>1, <1>m DEF Sound, Single
  <2> QED BY <2>1, <2>2, <2>3, <1>1 DEF Sound, Single
<1>8. Wired(t)
  <2>1. <<>> \o <<>> = <<>>
    BY ConcatEmptySeq, EmptySeq
  <2>2. t.sent = t.down[n] \o t.up[n]
    BY <2>1, <1>1, <1>3
  <2>3. ASSUME NEW g \in Generations, g > n PROVE g > c
    BY <2>3, <1>1 DEF Generations
  <2> QED BY <2>2, <2>3, <1>1 DEF Sound, Wired
<1>9. Settling(t)
  <2>1. \A x \in ToSet(t.queue) : t.outcome[x] = "waiting"
    BY <1>1, <1>5, <1>m DEF Sound, Settling
  <2>2. ASSUME NEW g \in Generations, NEW x \in ToSet(t.up[g])
        PROVE  t.outcome[x] = "failed"
    <3>1. CASE g = c BY <3>1, <2>2, <1>1, <1>4, <1>5
    <3>2. CASE g # c BY <3>2, <2>2, <1>1, <1>5, <1>m DEF Sound, Settling
    <3> QED BY <3>1, <3>2
  <2> QED BY <2>1, <2>2, <1>1, <1>3 DEF Settling
<1>10. ASSUME ~t.refused PROVE InTurn(t)
  <2>0. InTurn(s) /\ \A a, b : Prior(t, a, b) <=> Prior(s, a, b)
    BY <1>1, <1>10 DEF Sound, Prior
  <2>1. Ordered(t, t.queue) /\ Ordered(t, t.sent)
    BY <2>0, <1>1, <1>3 DEF InTurn, Ordered
  <2>2. \A x \in ToSet(t.queue) :
          /\ \A y \in ToSet(t.executed) : ~Prior(t, x, y)
          /\ \A g \in Generations : \A y \in ToSet(t.up[g]) : ~Prior(t, x, y)
    BY <2>0, <1>1 DEF InTurn
  <2>3. \A a, b : Precedes(t.executed, a, b) /\ Prior(t, b, a) => t.outcome[b] = "failed"
    BY <2>0, <1>1, <1>5, <1>m DEF InTurn
  <2> QED BY <2>1, <2>2, <2>3, <1>1, <1>3 DEF InTurn
<1> QED BY <1>2, <1>7, <1>8, <1>9, <1>10 DEF Sound, t

LEMMA FailAllSound ==
    ASSUME NEW s, Sound(s), ~s.closed, NEW R, NEW c \in BOOLEAN,
           ToSet(s.queue) \cup ToSet(s.sent) \subseteq R, c \/ s.sent = <<>>
    PROVE  Sound(FailAll(s, R, c))
<1> DEFINE t == FailAll(s, R, c)
<1>1. /\ s \in States /\ s.current \in Generations /\ t.queue = <<>> /\ t.up = s.up
      /\ t.executed = s.executed /\ t.current = s.current /\ t.closed = c /\ t.refused = s.refused
      /\ t.asked = s.asked /\ t.sent = <<>> /\ t.down = s.down
      /\ t.outcome = Settled(s.outcome, R, "failed")
  BY DEF FailAll, States, Sound
<1>2. t \in States
  <2>1. Settled(s.outcome, R, "failed") \in [Requests -> Outcomes]
    BY <1>1 DEF States, Outcomes, Settled
  <2> QED BY <1>1, <2>1, EmptySeq DEF FailAll, States
<1> HIDE DEF t
<1>3. ToSet(<<>>) = {} /\ \A a, b : ~Precedes(<<>>, a, b)
  BY EmptyFacts
<1>4. \A r \in ToSet(s.up[s.current]) : r \in ToSet(s.sent)
  BY SentFacts
<1>m. /\ ToSet(s.queue) \subseteq Requests /\ ToSet(s.sent) \subseteq Requests
      /\ ToSet(s.executed) \subseteq Requests
      /\ \A g \in Generations : ToSet(s.up[g]) \subseteq Requests
      /\ \A a, b : Precedes(s.executed, a, b) => a \in ToSet(s.executed) /\ b \in ToSet(s.executed)
  BY SoundMembers
<1>5. /\ \A r \in ToSet(s.sent) : t.outcome[r] = "failed"
      /\ \A r \in Requests : s.outcome[r] = "failed" => t.outcome[r] = "failed"
      /\ \A r \in Requests : t.outcome[r] # "new" <=> s.outcome[r] # "new"
  BY <1>1, <1>m DEF Settled, Sound, Settling
<1>7. Single(t)
  <2>1. Distinct(t.sent) /\ Distinct(t.queue)
    BY <1>1, <1>3 DEF Distinct
  <2>2. /\ \A x \in Requests : x \in ToSet(t.asked) <=> t.outcome[x] # "new"
        /\ \A x \in ToSet(t.executed) : t.outcome[x] # "new"
    BY <1>5, <1>1, <1>m DEF Sound, Single
  <2>3. ASSUME NEW g \in Generations, NEW x \in ToSet(t.up[g])
        PROVE  x \notin ToSet(t.queue) /\ x \notin ToSet(t.executed) /\ t.outcome[x] # "new"
    BY <1>3, <1>5, <2>3, <1>1, <1>m DEF Sound, Single
  <2> QED BY <2>1, <2>2, <2>3, <1>1, <1>3 DEF Sound, Single
<1>8. Wired(t)
  <2>1. ASSUME ~c PROVE t.sent = t.down[t.current] \o t.up[t.current]
    BY <2>1, <1>1 DEF Sound, Wired
  <2> QED BY <2>1, <1>1 DEF Sound, Wired
<1>9. Settling(t)
  <2>1. ASSUME NEW g \in Generations, NEW x \in ToSet(t.up[g])
        PROVE  g # t.current \/ t.closed => t.outcome[x] = "failed"
    <3>1. CASE g = s.current BY <3>1, <2>1, <1>1, <1>4, <1>5
    <3>2. CASE g # s.current BY <3>2, <2>1, <1>1, <1>5, <1>m DEF Sound, Settling
    <3> QED BY <3>1, <3>2
  <2> QED BY <2>1, <1>1, <1>3 DEF Settling
<1>10. ASSUME ~t.refused PROVE InTurn(t)
  <2>0. InTurn(s) /\ \A a, b : Prior(t, a, b) <=> Prior(s, a, b)
    BY <1>1, <1>10 DEF Sound, Prior
  <2>1. Ordered(t, t.queue) /\ Ordered(t, t.sent)
    BY <1>1, <1>3 DEF Ordered
  <2>2. \A a, b : Precedes(t.executed, a, b) /\ Prior(t, b, a) => t.outcome[b] = "failed"
    BY <2>0, <1>1, <1>5, <1>m DEF InTurn
  <2>3. ~t.closed => \A x \in ToSet(t.up[t.current]) :
          /\ \A y \in ToSet(t.executed) : ~Prior(t, x, y)
          /\ \A g \in Generations \ {t.current} : \A y \in ToSet(t.up[g]) : ~Prior(t, x, y)
    BY <2>0, <1>1 DEF InTurn
  <2> QED BY <2>1, <2>2, <2>3, <1>1, <1>3 DEF InTurn
<1> QED BY <1>2, <1>7, <1>8, <1>9, <1>10 DEF Sound, t

LEMMA ExecuteSound ==
    ASSUME NEW s, Sound(s), NEW g \in Generations, s.up[g] # <<>>
    PROVE  Sound(Execute(s, g))
<1> DEFINE t == Execute(s, g)
           c == s.current
           h == Head(s.up[g])
<1>1. /\ s \in States /\ c \in Generations /\ t.queue = s.queue /\ t.current = c
      /\ t.closed = s.closed /\ t.refused = s.refused /\ t.outcome = s.outcome
      /\ t.asked = s.asked /\ t.sent = s.sent /\ t.executed = Append(s.executed, h)
      /\ t.up[g] = Tail(s.up[g]) /\ t.down[g] = Append(s.down[g], h)
      /\ \A k \in Generations : k # g => t.up[k] = s.up[k] /\ t.down[k] = s.down[k]
      /\ s.up[g] \in Seq(Requests) /\ s.down[g] \in Seq(Requests) /\ s.executed \in Seq(Requests)
  BY DEF Execute, States, Sound
<1>2. /\ h \in Requests /\ Tail(s.up[g]) \in Seq(Requests)
      /\ ToSet(s.up[g]) = {h} \cup ToSet(Tail(s.up[g]))
      /\ \A a, b : Precedes(s.up[g], a, b) <=>
            Precedes(Tail(s.up[g]), a, b) \/ (a = h /\ b \in ToSet(Tail(s.up[g])))
  BY <1>1, HeadTailFacts
<1>3. t \in States
  <2>1. Append(s.down[g], h) \in Seq(Requests) /\ Append(s.executed, h) \in Seq(Requests)
    BY <1>1, <1>2, AppendProperties
  <2> QED BY <1>2, <2>1 DEF Execute, States, Sound
<1> HIDE DEF t, c
<1>4. /\ ToSet(t.up[g]) = ToSet(s.up[g]) \ {h}
      /\ h \in ToSet(s.up[g]) /\ Distinct(t.up[g])
      /\ \A b \in ToSet(t.up[g]) : Precedes(s.up[g], h, b)
  <2>1. \A a : ~Precedes(s.up[g], a, a)
    BY DEF Sound, Single, Distinct
  <2>2. h \notin ToSet(Tail(s.up[g])) /\ Distinct(Tail(s.up[g]))
    BY <2>1, <1>2 DEF Distinct
  <2> QED BY <1>1, <1>2, <2>2
<1>5. Append(s.down[g], h) \o Tail(s.up[g]) = s.down[g] \o s.up[g]
  <2>1. ASSUME NEW p \in Seq(Requests), NEW q \in Seq(Requests), q # <<>>
        PROVE  Append(p, Head(q)) \o Tail(q) = p \o q
    BY <2>1, HeadMoves
  <2> QED BY <1>1, <2>1
<1> HIDE DEF h
<1>6. /\ ToSet(t.executed) = ToSet(s.executed) \cup {h}
      /\ \A a, b : Precedes(t.executed, a, b) <=>
            Precedes(s.executed, a, b) \/ (a \in ToSet(s.executed) /\ b = h)
  <2>1. ASSUME NEW q \in Seq(Requests)
        PROVE  /\ ToSet(Append(q, h)) = ToSet(q) \cup {h}
               /\ \A a, b : Precedes(Append(q, h), a, b) <=>
                     Precedes(q, a, b) \/ (a \in ToSet(q) /\ b = h)
    BY <1>2, AppendFacts
  <2> QED BY <1>1, <2>1
<1>7. ToSet(t.down[g]) = ToSet(s.down[g]) \cup {h}
  <2>1. ToSet(Append(s.down[g], h)) = ToSet(s.down[g]) \cup {h}
    BY <1>1, <1>2, AppendFacts
  <2> QED BY <1>1, <2>1
<1>8. \A k \in Generations : ToSet(t.up[k]) = ToSet(s.up[k]) \ {h}
  <2>1. ASSUME NEW k \in Generations, k # g PROVE h \notin ToSet(s.up[k])
    BY <2>1, <1>4 DEF Sound, Single
  <2> QED BY <2>1, <1>1, <1>4
<1>9. Single(t)
  <2>1. h \notin ToSet(s.executed) /\ h \notin ToSet(s.queue) /\ s.outcome[h] # "new"
    BY <1>4 DEF Sound, Single
  <2>2. Distinct(t.executed)
    BY <2>1, <1>6 DEF Sound, Single, Distinct
  <2>3. /\ \A r \in ToSet(t.queue) : r \notin ToSet(t.executed)
        /\ \A r \in ToSet(t.executed) : t.outcome[r] # "new"
    BY <2>1, <1>1, <1>6 DEF Sound, Single
  <2>4. ASSUME NEW k \in Generations PROVE Distinct(t.up[k])
    BY <1>1, <1>4 DEF Sound, Single
  <2>5. ASSUME NEW k \in Generations, NEW r \in ToSet(t.up[k])
        PROVE  /\ r \notin ToSet(t.queue) /\ r \notin ToSet(t.executed)
               /\ t.outcome[r] # "new"
               /\ \A j \in Generations \ {k} : r \notin ToSet(t.up[j])
    <3>1. r # h /\ r \in ToSet(s.up[k])
      BY <2>5, <1>8
    <3>2. \A j \in Generations \ {k} : r \notin ToSet(t.up[j])
      BY <3>1, <1>8 DEF Sound, Single
    <3> QED BY <3>1, <3>2, <1>1, <1>6 DEF Sound, Single
  <2> QED BY <2>2, <2>3, <2>4, <2>5, <1>1 DEF Sound, Single
<1>10. Wired(t)
  <2>1. ASSUME ~t.closed PROVE t.sent = t.down[c] \o t.up[c]
    <3>1. s.sent = s.down[c] \o s.up[c] BY <2>1, <1>1 DEF Sound, Wired, c
    <3>2. CASE g = c BY <3>1, <3>2, <1>1, <1>5
    <3>3. CASE g # c BY <3>1, <3>3, <1>1
    <3> QED BY <3>2, <3>3
  <2>2. ASSUME NEW k \in Generations, NEW r \in ToSet(t.down[k]) PROVE r \in ToSet(t.executed)
    <3>1. r \in ToSet(s.down[k]) \/ r = h
      BY <2>2, <1>1, <1>7
    <3> QED BY <3>1, <1>6 DEF Sound, Wired
  <2>3. ASSUME NEW k \in Generations, k > c PROVE t.up[k] = <<>> /\ t.down[k] = <<>>
    <3>1. s.up[k] = <<>> /\ s.down[k] = <<>> BY <2>3 DEF Sound, Wired, c
    <3> QED BY <3>1, <1>1
  <2> QED BY <2>1, <2>2, <2>3, <1>1 DEF Wired
<1>11. Settling(t)
  <2>1. \A k \in Generations : \A x \in ToSet(t.up[k]) :
          k # t.current \/ t.closed => t.outcome[x] = "failed"
    <3>1. ASSUME NEW k \in Generations, NEW x \in ToSet(t.up[k]), k # t.current \/ t.closed
          PROVE  t.outcome[x] = "failed"
      <4>1. x \in ToSet(s.up[k]) BY <3>1, <1>8
      <4> QED BY <4>1, <3>1, <1>1 DEF Sound, Settling, c
    <3> QED BY <3>1
  <2> QED BY <2>1, <1>1 DEF Sound, Settling
<1>12. ASSUME ~t.refused PROVE InTurn(t)
  <2>0. InTurn(s) /\ \A a, b : Prior(t, a, b) <=> Prior(s, a, b)
    BY <1>1, <1>12 DEF Sound, Prior
  <2>1. Ordered(t, t.queue) /\ Ordered(t, t.sent)
    BY <2>0, <1>1 DEF InTurn, Ordered
  <2>2. \A x \in ToSet(t.queue) :
          /\ \A y \in ToSet(t.executed) : ~Prior(t, x, y)
          /\ \A y \in ToSet(t.sent) : ~Prior(t, x, y)
          /\ \A k \in Generations : \A y \in ToSet(t.up[k]) : ~Prior(t, x, y)
    <3>1. ASSUME NEW x \in ToSet(s.queue)
          PROVE  /\ \A y \in ToSet(s.executed) : ~Prior(s, x, y)
                 /\ \A y \in ToSet(s.sent) : ~Prior(s, x, y)
                 /\ \A k \in Generations : \A y \in ToSet(s.up[k]) : ~Prior(s, x, y)
      BY <3>1, <2>0 DEF InTurn
    <3> QED BY <3>1, <2>0, <1>1, <1>4, <1>6, <1>8
  <2>3. ASSUME ~s.closed, NEW x \in ToSet(t.up[c])
        PROVE  /\ \A y \in ToSet(t.executed) : ~Prior(t, x, y)
               /\ \A k \in Generations \ {c} : \A y \in ToSet(t.up[k]) : ~Prior(t, x, y)
    <3>1. x \in ToSet(s.up[c])
      BY <2>3, <1>1, <1>8
    <3>2. ~Prior(t, x, h)
      <4>1. CASE g # c
        BY <4>1, <3>1, <2>3, <2>0, <1>1, <1>4 DEF InTurn, c
      <4>2. CASE g = c
        <5>1. Precedes(s.up[c], h, x) BY <2>3, <4>2, <1>4
        <5>2. Precedes(s.sent, h, x)
          <6>1. s.sent = s.down[c] \o s.up[c] BY <2>3 DEF Sound, Wired, c
          <6> QED BY <6>1, <5>1, <4>2, <1>1, ConcatFacts
        <5> QED BY <5>2, <2>0 DEF InTurn, Ordered
      <4> QED BY <4>1, <4>2
    <3> QED BY <3>1, <3>2, <2>0, <2>3, <1>1, <1>6, <1>8, ZenonT(60) DEF InTurn, c
  <2>4. ASSUME NEW a, NEW b, Precedes(t.executed, a, b), Prior(t, b, a)
        PROVE  t.outcome[b] = "failed"
    <3>1. CASE Precedes(s.executed, a, b)
      BY <3>1, <2>4, <2>0, <1>1 DEF InTurn
    <3>2. CASE a \in ToSet(s.executed) /\ b = h
      <4>1. CASE g = c /\ ~s.closed BY <4>1, <3>2, <2>4, <2>0, <1>4 DEF InTurn, c
      <4>2. CASE g # c \/ s.closed BY <4>2, <3>2, <1>1, <1>4 DEF Sound, Settling, c
      <4> QED BY <4>1, <4>2
    <3> QED BY <3>1, <3>2, <2>4, <1>6
  <2> QED BY <2>1, <2>2, <2>3, <2>4, <1>1 DEF InTurn
<1> QED BY <1>3, <1>9, <1>10, <1>11, <1>12 DEF Sound, t

LEMMA ForgetSound ==
    ASSUME NEW s, Sound(s), NEW g \in Generations, g # s.current \/ s.closed
    PROVE  Sound(Forget(s, g))
<1> DEFINE t == Forget(s, g)
           c == s.current
<1>1. /\ s \in States /\ c \in Generations /\ t.queue = s.queue /\ t.current = c
      /\ t.closed = s.closed /\ t.refused = s.refused /\ t.outcome = s.outcome
      /\ t.asked = s.asked /\ t.sent = s.sent /\ t.executed = s.executed
      /\ t.up[g] = <<>> /\ t.down[g] = <<>>
      /\ \A k \in Generations : k # g => t.up[k] = s.up[k] /\ t.down[k] = s.down[k]
  BY DEF Forget, States, Sound
<1>2. t \in States
  BY EmptySeq DEF Forget, States, Sound
<1> HIDE DEF t
<1>3. ToSet(<<>>) = {} /\ \A a, b : ~Precedes(<<>>, a, b)
  BY EmptyFacts
<1>4. \A k \in Generations : ToSet(t.up[k]) \subseteq ToSet(s.up[k])
                              /\ ToSet(t.down[k]) \subseteq ToSet(s.down[k])
  BY <1>1, <1>3
<1>5. Single(t)
  <2>1. ASSUME NEW k \in Generations PROVE Distinct(t.up[k])
    BY <1>1, <1>3 DEF Sound, Single, Distinct
  <2>2. ASSUME NEW k \in Generations, NEW r \in ToSet(t.up[k])
        PROVE  /\ r \notin ToSet(t.queue) /\ r \notin ToSet(t.executed)
               /\ t.outcome[r] # "new"
               /\ \A j \in Generations \ {k} : r \notin ToSet(t.up[j])
    BY <2>2, <1>1, <1>4, ZenonT(60) DEF Sound, Single
  <2> QED BY <2>1, <2>2, <1>1 DEF Sound, Single
<1>6. Wired(t)
  <2>1. ASSUME ~t.closed PROVE t.sent = t.down[c] \o t.up[c]
    BY <2>1, <1>1 DEF Sound, Wired
  <2>2. ASSUME NEW k \in Generations, NEW r \in ToSet(t.down[k]) PROVE r \in ToSet(t.executed)
    BY <2>2, <1>1, <1>4 DEF Sound, Wired
  <2>3. ASSUME NEW k \in Generations, k > c PROVE t.up[k] = <<>> /\ t.down[k] = <<>>
    BY <2>3, <1>1 DEF Sound, Wired
  <2> QED BY <2>1, <2>2, <2>3, <1>1 DEF Wired
<1>7. Settling(t)
  BY <1>1, <1>4 DEF Sound, Settling
<1>8. ASSUME ~t.refused PROVE InTurn(t)
  <2>0. InTurn(s) /\ \A a, b : Prior(t, a, b) <=> Prior(s, a, b)
    BY <1>1, <1>8 DEF Sound, Prior
  <2>1. Ordered(t, t.queue) /\ Ordered(t, t.sent)
    BY <2>0, <1>1 DEF InTurn, Ordered
  <2>2. \A x \in ToSet(t.queue) :
          /\ \A y \in ToSet(t.executed) : ~Prior(t, x, y)
          /\ \A y \in ToSet(t.sent) : ~Prior(t, x, y)
          /\ \A k \in Generations : \A y \in ToSet(t.up[k]) : ~Prior(t, x, y)
    BY <2>0, <1>1, <1>4 DEF InTurn
  <2>3. ASSUME ~s.closed, NEW x \in ToSet(t.up[c])
        PROVE  /\ \A y \in ToSet(t.executed) : ~Prior(t, x, y)
               /\ \A k \in Generations \ {c} : \A y \in ToSet(t.up[k]) : ~Prior(t, x, y)
    BY <2>3, <2>0, <1>1, <1>4 DEF InTurn, c
  <2>4. \A a, b : Precedes(t.executed, a, b) /\ Prior(t, b, a) => t.outcome[b] = "failed"
    BY <2>0, <1>1 DEF InTurn
  <2> QED BY <2>1, <2>2, <2>3, <2>4, <1>1 DEF InTurn
<1> QED BY <1>2, <1>5, <1>6, <1>7, <1>8 DEF Sound, t

LEMMA NowIs ==
    ASSUME NEW t, Sound(t), queue' = t.queue, inFlight' = t.sent, outcome' = t.outcome,
           asked' = t.asked, up' = t.up, down' = t.down, executed' = t.executed,
           generation' = t.current, closed' = t.closed, refused' = t.refused
    PROVE  Sound(Now)'
<1>1. t \in States
  BY DEF Sound
<1>2. Now' = t
  BY <1>1 DEF Now, States
<1>3. Sound(Now')
  BY <1>2
<1> QED BY <1>3 DEF Sound, States, Outcomes, Generations, Single, Wired, Settling, InTurn, Ordered, Prior,
              Distinct, Precedes

(***************************************************************************)
(* HostClient.                                                             *)
(***************************************************************************)
\* One request at a time is in flight, and every socket but the first took a fault.
SocketInv ==
    /\ faults \in 0..MaxFaults /\ generation <= faults + 1
    /\ Len(inFlight) <= 1
    /\ phase \in {"connecting", "begun", "confirming", "proved", "ready"}
    /\ phase # "ready" => inFlight = <<>>

\* What dispatchNextRequest does to u, which is what there is by then.
LEMMA DispatchSound ==
    ASSUME NEW u, Sound(u), ~u.closed, generation \in Nat, faults \in 0..MaxFaults,
           generation <= faults + 1, Len(u.sent) <= 1,
           u.up = up, u.current = generation,
           u.asked = asked', u.down = down', u.executed = executed', u.closed = closed',
           u.refused = refused', Dispatch(u.queue, u.sent, u.outcome)
    PROVE  Sound(Now)' /\ SocketInv'
<1> DEFINE q == u.queue
           h == Head(q)
<1>1. u \in States /\ q \in Seq(Requests) /\ u.sent \in Seq(Requests) /\ Len(u.sent) \in Nat
      /\ generation \in Generations
  BY LenProperties DEF Sound, States
<1>2. CASE u.sent # <<>> \/ q = <<>>
  <2>1. /\ queue' = u.queue /\ inFlight' = u.sent /\ outcome' = u.outcome /\ phase' = "ready"
        /\ generation' = generation /\ up' = up /\ faults' = faults
    BY <1>2 DEF Dispatch
  <2>2. Sound(Now)'
    BY <2>1, NowIs
  <2> QED BY <2>1, <2>2 DEF SocketInv
<1>3. CASE u.sent = <<>> /\ q # <<>>
  <2>1. /\ h \in Requests /\ Tail(q) \in Seq(Requests)
        /\ ToSet(q) = {h} \cup ToSet(Tail(q))
        /\ \A a, b : Precedes(q, a, b) <=>
              Precedes(Tail(q), a, b) \/ (a = h /\ b \in ToSet(Tail(q)))
    BY <1>1, <1>3, HeadTailFacts
  <2>2. u.outcome[h] = "waiting" /\ h \notin ToSet(Tail(q)) /\ h \notin ToSet(u.sent)
    BY <2>1, <1>3, EmptyFacts DEF Sound, Single, Settling, Distinct
  <2>3. CASE /\ queue' = Tail(q) /\ inFlight' = <<h>> /\ outcome' = u.outcome
             /\ up' = Sent(h) /\ phase' = "ready" /\ UNCHANGED <<generation, faults>>
    <3>1. q = <<h>> \o Tail(q) /\ <<h>> \in Seq(Requests) /\ Len(<<h>>) = 1
      BY <1>1, <1>3, <2>1, HeadTailConcat
    <3>2. Sound(Send(u, <<h>>, Tail(q)))
      BY <3>1, <2>1, <1>3, SendSound
    <3>3. up[generation] = <<>>
      BY <1>3, SentFacts
    <3>4. up' = [up EXCEPT ![generation] = <<h>>]
      BY <3>3, <2>3 DEF Sent
    <3> DEFINE v == Send(u, <<h>>, Tail(q))
    <3>5. /\ v.queue = Tail(q) /\ v.sent = <<h>> /\ v.outcome = u.outcome /\ v.asked = u.asked
          /\ v.up = up' /\ v.down = u.down /\ v.executed = u.executed
          /\ v.current = generation /\ v.closed = u.closed /\ v.refused = u.refused
      BY <3>4, <1>1 DEF Send, States
    <3> HIDE DEF v
    <3>6. Sound(Now)'
      BY <3>2, <3>5, <2>3, NowIs DEF v
    <3> QED BY <3>1, <3>6, <2>3 DEF SocketInv
  <2>4. CASE /\ queue' = Tail(q) /\ Fault
             /\ inFlight' = <<>> /\ outcome' = Settled(u.outcome, {h}, "failed")
             /\ Replace /\ UNCHANGED up
    <3> DEFINE v == Fail(u, h, Tail(q))
    <3>1. Sound(v)
      BY <2>1, <2>2, FailSound
    <3>2. outcome' = [u.outcome EXCEPT ![h] = "failed"]
      BY <2>2, <2>4, <1>1 DEF Settled, States
    <3>3. /\ v.sent = <<>> /\ v.closed = u.closed /\ v.current = generation /\ v \in States
          /\ v.queue = Tail(q) /\ v.outcome = outcome' /\ v.asked = u.asked /\ v.up = up
          /\ v.down = u.down /\ v.executed = u.executed /\ v.refused = u.refused
      BY <3>1, <3>2, <1>1, <1>3 DEF Fail, States, Sound
    <3> HIDE DEF v
    <3>4. generation + 1 \in Generations /\ faults' \in 0..MaxFaults /\ generation + 1 <= faults' + 1
      BY <2>4, <1>1, TransportAssumption DEF Fault, Generations
    <3>5. Sound(Renew(v))
      BY <3>1, <3>3, <3>4, RenewSound
    <3>6. Settled(v.outcome, ToSet(v.sent), "failed") = v.outcome
      BY <3>3, EmptyFacts DEF Settled, States
    <3> DEFINE w == Renew(v)
    <3>7. /\ w.queue = Tail(q) /\ w.sent = <<>> /\ w.outcome = outcome' /\ w.asked = u.asked
          /\ w.up = up /\ w.down = u.down /\ w.executed = u.executed
          /\ w.current = generation + 1 /\ w.closed = u.closed /\ w.refused = u.refused
      BY <3>3, <3>6 DEF Renew, States
    <3> HIDE DEF w
    <3>8. Sound(Now)'
      BY <3>5, <3>7, <2>4, NowIs DEF w, Replace
    <3>9. inFlight' = <<>> /\ phase' = "connecting" /\ generation' = generation + 1
      BY <2>4 DEF Replace
    <3>10. Len(inFlight') <= 1
      BY <3>9
    <3> QED BY <3>4, <3>8, <3>9, <3>10 DEF SocketInv
  <2> QED BY <2>3, <2>4, <1>3 DEF Dispatch
<1> QED BY <1>2, <1>3

\* What the two transports do alike.
LEMMA RequestClosedSound ==
    ASSUME Sound(Now), NEW r \in Requests, RequestClosed(r)
    PROVE  Sound(Now)'
<1> DEFINE t == MakeFailed(Now, r)
<1>1. Now \in States /\ Now.outcome[r] = "new"
  BY DEF RequestClosed, Made, Now, Sound
<1>2. Sound(t)
  BY <1>1, MakeFailedSound
<1>3. /\ t.queue = queue /\ t.sent = inFlight /\ t.outcome = [outcome EXCEPT ![r] = "failed"]
      /\ t.asked = Append(asked, r) /\ t.up = up /\ t.down = down /\ t.executed = executed
      /\ t.current = generation /\ t.closed = closed /\ t.refused = refused
  BY DEF MakeFailed, Now
<1> HIDE DEF t
<1> QED BY <1>2, <1>3, NowIs DEF RequestClosed, Made, connectionVars, wireVars

LEMMA HostExecutesSound ==
    ASSUME Sound(Now), NEW g \in Generations, HostExecutes(g)
    PROVE  Sound(Now)'
<1> DEFINE t == Execute(Now, g)
           h == Head(up[g])
<1>1. Now \in States /\ Now.up[g] # <<>>
  BY DEF HostExecutes, Now, Sound
<1>2. Sound(t)
  BY <1>1, ExecuteSound
<1>3. /\ t.queue = queue /\ t.sent = inFlight /\ t.outcome = outcome
      /\ t.asked = asked /\ t.up = [up EXCEPT ![g] = Tail(@)]
      /\ t.down = [down EXCEPT ![g] = Append(@, h)] /\ t.executed = Append(executed, h)
      /\ t.current = generation /\ t.closed = closed /\ t.refused = refused
  BY DEF Execute, Now
<1> HIDE DEF t
<1> QED BY <1>2, <1>3, NowIs DEF HostExecutes, connectionVars, requestVars

LEMMA ConnectionEndsSound ==
    ASSUME Sound(Now), NEW g \in Generations, ConnectionEnds(g)
    PROVE  Sound(Now)'
<1> DEFINE t == Forget(Now, g)
<1>1. Now \in States /\ (g # Now.current \/ Now.closed)
  BY DEF ConnectionEnds, Now, Sound
<1>2. Sound(t)
  BY <1>1, ForgetSound
<1>3. /\ t.queue = queue /\ t.sent = inFlight /\ t.outcome = outcome
      /\ t.asked = asked /\ t.up = [up EXCEPT ![g] = <<>>]
      /\ t.down = [down EXCEPT ![g] = <<>>] /\ t.executed = executed
      /\ t.current = generation /\ t.closed = closed /\ t.refused = refused
  BY DEF Forget, Now
<1> HIDE DEF t
<1> QED BY <1>2, <1>3, NowIs DEF ConnectionEnds, connectionVars, requestVars

\* A step that does nothing to a request or to the wire.
LEMMA OthersSound ==
    ASSUME Sound(Now), UNCHANGED <<queue, inFlight, outcome, asked, up, down, executed, generation,
                                   closed, refused>>
    PROVE  Sound(Now)'
<1>1. /\ Now.queue = queue /\ Now.sent = inFlight /\ Now.outcome = outcome
      /\ Now.asked = asked /\ Now.up = up /\ Now.down = down /\ Now.executed = executed
      /\ Now.current = generation /\ Now.closed = closed /\ Now.refused = refused
  BY DEF Now
<1> QED BY <1>1, NowIs

(***************************************************************************)
(* The actions of HostClient.                                              *)
(***************************************************************************)
LEMMA NowFields ==
    ASSUME Sound(Now)
    PROVE  /\ queue \in Seq(Requests) /\ inFlight \in Seq(Requests) /\ asked \in Seq(Requests)
           /\ outcome \in [Requests -> Outcomes] /\ executed \in Seq(Requests)
           /\ up \in [Generations -> Seq(Requests)] /\ down \in [Generations -> Seq(Requests)]
           /\ generation \in Generations /\ generation \in Nat
           /\ closed \in BOOLEAN /\ refused \in BOOLEAN
           /\ Len(inFlight) \in Nat
<1>1. /\ Now.queue = queue /\ Now.sent = inFlight /\ Now.outcome = outcome
      /\ Now.asked = asked /\ Now.up = up /\ Now.down = down /\ Now.executed = executed
      /\ Now.current = generation /\ Now.closed = closed /\ Now.refused = refused
  BY DEF Now
<1>2. Now \in States
  BY DEF Sound
<1> HIDE DEF Now
<1>3. /\ queue \in Seq(Requests) /\ inFlight \in Seq(Requests) /\ asked \in Seq(Requests)
      /\ outcome \in [Requests -> Outcomes] /\ executed \in Seq(Requests)
      /\ up \in [Generations -> Seq(Requests)] /\ down \in [Generations -> Seq(Requests)]
      /\ generation \in Generations
      /\ closed \in BOOLEAN /\ refused \in BOOLEAN
  BY <1>1, <1>2 DEF States
<1> QED BY <1>3, LenProperties DEF Generations

LEMMA ClientRequestSound ==
    ASSUME Sound(Now), SocketInv, NEW r \in Requests, ClientRequest(r)
    PROVE  Sound(Now)' /\ SocketInv'
<1> DEFINE u == Make(Now, r)
<1>1. Now.outcome[r] = "new" /\ ~Now.closed
  BY DEF ClientRequest, Made, Now
<1>2. Sound(u)
  BY <1>1, MakeSound
<1>3. /\ u.queue = Append(queue, r) /\ u.sent = inFlight
      /\ u.outcome = [outcome EXCEPT ![r] = "waiting"]
      /\ u.asked = Append(asked, r) /\ u.up = up /\ u.down = down /\ u.executed = executed
      /\ u.current = generation /\ u.closed = closed /\ u.refused = refused
  BY DEF Make, Now
<1> HIDE DEF u
<1>4. asked' = u.asked /\ down' = u.down /\ executed' = u.executed /\ closed' = u.closed
      /\ refused' = u.refused /\ ~u.closed
  BY <1>3 DEF ClientRequest, Made
<1>5. CASE phase = "ready"
  <2>1. Dispatch(u.queue, u.sent, u.outcome)
    BY <1>3, <1>5 DEF ClientRequest
  <2>2. generation \in Nat /\ faults \in 0..MaxFaults /\ generation <= faults + 1 /\ Len(u.sent) <= 1
    BY <1>3, NowFields DEF SocketInv
  <2> QED BY <1>2, <1>3, <1>4, <2>1, <2>2, DispatchSound
<1>6. CASE phase # "ready"
  <2>1. queue' = u.queue /\ outcome' = u.outcome
        /\ UNCHANGED <<phase, generation, inFlight, up, faults>>
    BY <1>3, <1>6 DEF ClientRequest
  <2>2. Sound(Now)'
    BY <2>1, <1>2, <1>3, <1>4, NowIs
  <2> QED BY <2>1, <2>2 DEF SocketInv
<1> QED BY <1>5, <1>6

LEMMA EndsSound ==
    ASSUME Sound(Now), SocketInv, ~closed, Ends, faults' \in 0..MaxFaults, faults <= faults'
    PROVE  Sound(Now)' /\ SocketInv'
<1> DEFINE t == FailAll(Now, Waiting, TRUE)
<1>1. ToSet(Now.queue) \cup ToSet(Now.sent) \subseteq Waiting /\ ~Now.closed
  BY SoundMembers DEF Sound, Settling, Waiting, Now
<1>2. Sound(t)
  BY <1>1, FailAllSound
<1>3. /\ t.queue = <<>> /\ t.sent = <<>> /\ t.outcome = Settled(outcome, Waiting, "failed")
      /\ t.asked = asked /\ t.up = up /\ t.down = down /\ t.executed = executed
      /\ t.current = generation /\ t.closed = TRUE /\ t.refused = refused
  BY DEF FailAll, Now
<1> HIDE DEF t
<1>4. Sound(Now)'
  BY <1>2, <1>3, NowIs DEF Ends, wireVars
<1>5. inFlight' = <<>> /\ phase' = phase /\ generation' = generation /\ generation \in Nat
  BY NowFields DEF Ends
<1>6. Len(inFlight') <= 1
  BY <1>5
<1>7. generation <= faults' + 1
  <2>1. MaxFaults \in Nat
    BY TransportAssumption
  <2>2. faults \in Nat /\ faults' \in Nat /\ generation <= faults + 1 /\ faults <= faults'
    BY <2>1 DEF SocketInv
  <2>3. \A g, m, n \in Nat : g <= m + 1 /\ m <= n => g <= n + 1
    OBVIOUS
  <2> QED BY <2>2, <2>3, <1>5
<1> QED BY <1>4, <1>5, <1>6, <1>7 DEF SocketInv

LEMMA ResultArrivesSound ==
    ASSUME Sound(Now), SocketInv, ResultArrives
    PROVE  Sound(Now)' /\ SocketInv'
<1> DEFINE u == Answer(Now)
           h == Head(inFlight)
<1>1. Now.down[Now.current] # <<>> /\ ~Now.closed
  BY DEF ResultArrives, Now
<1>2. Sound(u)
  BY <1>1, AnswerSound
<1>3. /\ inFlight # <<>> /\ h = Head(down[generation]) /\ h \in Requests
      /\ Tail(inFlight) \in Seq(Requests) /\ outcome[h] = "waiting"
  <2>1. /\ Now.sent = inFlight /\ Now.down = down /\ Now.current = generation
        /\ Now.outcome = outcome
    BY DEF Now
  <2> HIDE DEF Now
  <2> QED BY <1>1, <2>1, AnswerFacts
<1>4. /\ u.queue = queue /\ u.sent = Tail(inFlight)
      /\ u.outcome = [outcome EXCEPT ![h] = "answered"]
      /\ u.asked = asked /\ u.up = up /\ u.down = [down EXCEPT ![generation] = Tail(@)]
      /\ u.executed = executed
      /\ u.current = generation /\ u.closed = closed /\ u.refused = refused
  BY DEF Answer, Now
<1> HIDE DEF u
<1>5. Settled(outcome, {h}, Value(h, Head(down[generation]))) = [outcome EXCEPT ![h] = "answered"]
  BY <1>3, NowFields DEF Settled, Value
<1>6. Dispatch(u.queue, u.sent, u.outcome)
  BY <1>3, <1>4, <1>5 DEF ResultArrives
<1>7. asked' = u.asked /\ down' = u.down /\ executed' = u.executed /\ closed' = u.closed
      /\ refused' = u.refused /\ ~u.closed
  BY <1>4 DEF ResultArrives
<1>8. generation \in Nat /\ faults \in 0..MaxFaults /\ generation <= faults + 1
  BY NowFields DEF SocketInv
<1>9. Len(u.sent) <= 1
  <2>1. Len(Tail(inFlight)) = Len(inFlight) - 1
    BY <1>3, NowFields, HeadTailProperties
  <2> QED BY <2>1, <1>4, NowFields DEF SocketInv
<1> QED BY <1>2, <1>4, <1>6, <1>7, <1>8, <1>9, DispatchSound

LEMMA ClientTimeoutSound ==
    ASSUME Sound(Now), SocketInv, NEW r \in Requests, ClientTimeout(r)
    PROVE  Sound(Now)' /\ SocketInv'
<1>1. /\ outcome[r] = "waiting" /\ ~closed /\ faults' \in 0..MaxFaults /\ faults' = faults + 1
      /\ generation \in Nat /\ faults \in Nat /\ generation <= faults + 1
  BY NowFields, TransportAssumption DEF ClientTimeout, Waiting, Fault, SocketInv
<1>2. CASE r \in ToSet(inFlight)
  <2> DEFINE t == Renew(Now)
  <2>1. generation + 1 \in Generations
    BY <1>1, NowFields, TransportAssumption DEF Generations, ClientTimeout, Fault
  <2>2. Sound(t)
    BY <1>1, <2>1, RenewSound DEF Now
  <2>3. /\ t.queue = queue /\ t.sent = <<>> /\ t.outcome = Settled(outcome, ToSet(inFlight), "failed")
        /\ t.asked = asked /\ t.up = up /\ t.down = down /\ t.executed = executed
        /\ t.current = generation + 1 /\ t.closed = closed /\ t.refused = refused
    BY DEF Renew, Now
  <2> HIDE DEF t
  <2>4. ToSet(inFlight) = {r}
    <3>1. inFlight \in Seq(Requests) /\ Len(inFlight) <= 1 /\ Len(inFlight) \in Nat
          /\ DOMAIN inFlight = 1..Len(inFlight)
      BY NowFields, LenProperties DEF SocketInv
    <3> QED BY <3>1, <1>2 DEF ToSet
  <2>5. Sound(Now)'
    BY <1>2, <2>2, <2>3, <2>4, NowIs DEF ClientTimeout, Replace, wireVars
  <2>6. inFlight' = <<>> /\ generation' = generation + 1 /\ phase' = "connecting"
    BY <1>2 DEF ClientTimeout, Replace
  <2>7. Len(inFlight') <= 1
    BY <2>6
  <2> QED BY <1>1, <2>5, <2>6, <2>7 DEF SocketInv
<1>3. CASE r \notin ToSet(inFlight)
  <2> DEFINE q == Without(queue, r)
             t == Fail(Now, r, q)
  <2>1. Distinct(queue) /\ queue \in Seq(Requests)
    BY NowFields DEF Sound, Single, Now
  <2>2. /\ q \in Seq(Requests) /\ ToSet(q) \subseteq ToSet(queue) /\ r \notin ToSet(q)
        /\ \A a, b : Precedes(q, a, b) => Precedes(queue, a, b)
    BY <2>1, WithoutFacts
  <2> HIDE DEF q
  <2>3. /\ Now.outcome[r] = "waiting" /\ r \notin ToSet(Now.sent) /\ Now.queue = queue
    BY <1>1, <1>3 DEF Now
  <2>4. Sound(t)
    BY <2>2, <2>3, FailSound
  <2>5. /\ t.queue = q /\ t.sent = inFlight /\ t.outcome = [outcome EXCEPT ![r] = "failed"]
        /\ t.asked = asked /\ t.up = up /\ t.down = down /\ t.executed = executed
        /\ t.current = generation /\ t.closed = closed /\ t.refused = refused
    BY DEF Fail, Now
  <2> HIDE DEF t
  <2>6. outcome' = [outcome EXCEPT ![r] = "failed"]
    BY <1>1, NowFields DEF ClientTimeout, Settled
  <2>7. queue' = q /\ UNCHANGED <<inFlight, asked, up, down, executed, generation, closed, refused, phase>>
    BY <1>3 DEF ClientTimeout, wireVars, q
  <2>8. Sound(Now)'
    BY <2>4, <2>5, <2>6, <2>7, NowIs
  <2> QED BY <1>1, <2>7, <2>8 DEF SocketInv
<1> QED BY <1>2, <1>3

\* Every step of HostClient.
LEMMA HostClientSound ==
    ASSUME Sound(Now), SocketInv, HostClientNext
    PROVE  Sound(Now)' /\ SocketInv'
<1> USE DEF connectionVars, requestVars, wireVars
<1>1. ASSUME NEW r \in Requests, ClientRequest(r) PROVE Sound(Now)' /\ SocketInv'
  BY <1>1, ClientRequestSound
<1>2. ASSUME NEW r \in Requests, ClientTimeout(r) PROVE Sound(Now)' /\ SocketInv'
  BY <1>2, ClientTimeoutSound
<1>3. ASSUME NEW r \in Requests, RequestClosed(r) PROVE Sound(Now)' /\ SocketInv'
  BY <1>3, RequestClosedSound DEF SocketInv, RequestClosed
<1>4. ASSUME NEW g \in Generations, HostExecutes(g) PROVE Sound(Now)' /\ SocketInv'
  BY <1>4, HostExecutesSound DEF SocketInv, HostExecutes
<1>5. ASSUME NEW g \in Generations, ConnectionEnds(g) PROVE Sound(Now)' /\ SocketInv'
  BY <1>5, ConnectionEndsSound DEF SocketInv, ConnectionEnds
<1>6. CASE SocketOpens
  BY <1>6, OthersSound DEF SocketInv, SocketOpens
<1>7. CASE Challenge
  BY <1>7, OthersSound DEF SocketInv, Challenge
<1>8. CASE Confirmed
  BY <1>8, OthersSound DEF SocketInv, Confirmed
<1>9. CASE Rejected
  <2>1. ~closed /\ Ends /\ faults' = faults /\ faults \in 0..MaxFaults /\ faults <= faults
    BY <1>9 DEF Rejected, SocketInv
  <2> QED BY <2>1, EndsSound
<1>10. CASE SocketReady
  <2>1. /\ Now.queue = queue /\ Now.sent = inFlight /\ Now.outcome = outcome
        /\ Now.asked = asked /\ Now.up = up /\ Now.down = down /\ Now.executed = executed
        /\ Now.current = generation /\ Now.closed = closed /\ Now.refused = refused
    BY DEF Now
  <2>2. /\ generation \in Nat /\ faults \in 0..MaxFaults /\ generation <= faults + 1
        /\ Len(Now.sent) <= 1
    BY <2>1, NowFields DEF SocketInv
  <2>3. /\ ~closed /\ Dispatch(queue, inFlight, outcome)
        /\ UNCHANGED <<closed, asked, down, executed, refused>>
    BY <1>10 DEF SocketReady
  <2> HIDE DEF Now
  <2> QED BY <2>1, <2>2, <2>3, DispatchSound
<1>11. CASE ResultArrives
  BY <1>11, ResultArrivesSound
<1>12. CASE SocketCloses
  <2>1. ~closed /\ Ends /\ faults' \in 0..MaxFaults /\ faults <= faults'
    BY <1>12, TransportAssumption DEF SocketCloses, SocketInv, Fault
  <2> QED BY <2>1, EndsSound
<1> QED BY <1>1, <1>2, <1>3, <1>4, <1>5, <1>6, <1>7, <1>8, <1>9, <1>10, <1>11, <1>12
    DEF HostClientNext

(***************************************************************************)
(* IceHostTransport.                                                       *)
(***************************************************************************)
\* Nothing is in flight but over an open channel, and nothing waits when it is open.
ChannelInv ==
    /\ phase \in Phases \ {"connecting", "begun", "confirming", "proved"}
    /\ phase # "ready" => inFlight = <<>>
    /\ phase = "ready" /\ ~refused => queue = <<>>

LEMMA FenceSound ==
    ASSUME Sound(Now), ChannelInv, ~closed, NEW r, Fence(Settled(outcome, {r}, "failed")) \/ Fence(outcome),
           r \in ToSet(inFlight) \/ Fence(outcome),
           UNCHANGED <<closed, queue, asked, up, down, executed, refused>>
    PROVE  Sound(Now)' /\ ChannelInv'
<1> DEFINE t == Renew(Now)
<1>1. generation + 1 \in Generations /\ generation \in Nat
  BY NowFields, TransportAssumption DEF Generations, Fence
<1>2. Sound(t)
  BY <1>1, RenewSound DEF Now
<1>3. /\ t.queue = queue /\ t.sent = <<>> /\ t.outcome = Settled(outcome, ToSet(inFlight), "failed")
      /\ t.asked = asked /\ t.up = up /\ t.down = down /\ t.executed = executed
      /\ t.current = generation + 1 /\ t.closed = closed /\ t.refused = refused
  BY DEF Renew, Now
<1> HIDE DEF t
<1>4. outcome' = Settled(outcome, ToSet(inFlight), "failed")
  <2>1. CASE Fence(outcome)
    BY <2>1 DEF Fence
  <2>2. CASE Fence(Settled(outcome, {r}, "failed")) /\ r \in ToSet(inFlight)
    <3>1. outcome' = Settled(Settled(outcome, {r}, "failed"), ToSet(inFlight), "failed")
      BY <2>2 DEF Fence
    <3> QED BY <3>1, <2>2, NowFields DEF Settled
  <2> QED BY <2>1, <2>2
<1>5. generation' = generation + 1 /\ phase' = "backoff" /\ inFlight' = <<>>
  BY DEF Fence
<1>6. Sound(Now)'
  BY <1>2, <1>3, <1>4, <1>5, NowIs
<1> QED BY <1>5, <1>6 DEF ChannelInv, Phases

LEMMA IceRequestSound ==
    ASSUME Sound(Now), ChannelInv, NEW r \in Requests, IceRequest(r)
    PROVE  Sound(Now)' /\ ChannelInv'
<1> USE DEF connectionVars
<1>1. /\ Now.outcome[r] = "new" /\ ~Now.closed /\ asked' = Append(asked, r)
      /\ UNCHANGED <<phase, closed, generation, down, executed, refused>>
  BY DEF IceRequest, Made, Now
<1>2. CASE /\ phase = "ready"
           /\ inFlight' = Append(inFlight, r) /\ up' = Sent(r)
           /\ outcome' = [outcome EXCEPT ![r] = "waiting"]
           /\ UNCHANGED queue
  <2> DEFINE t == MakeSent(Now, r)
  <2>1. ~Now.refused => Now.queue = <<>>
    BY <1>2 DEF ChannelInv, Now
  <2>2. Sound(t)
    BY <1>1, <2>1, MakeSentSound
  <2>3. /\ t.queue = queue /\ t.sent = Append(inFlight, r)
        /\ t.outcome = [outcome EXCEPT ![r] = "waiting"]
        /\ t.asked = Append(asked, r) /\ t.up = Sent(r) /\ t.down = down /\ t.executed = executed
        /\ t.current = generation /\ t.closed = closed /\ t.refused = refused
    BY DEF MakeSent, Now, Sent
  <2> HIDE DEF t
  <2>4. Sound(Now)'
    BY <1>1, <1>2, <2>2, <2>3, NowIs
  <2> QED BY <1>1, <1>2, <2>4 DEF ChannelInv
<1>3. CASE /\ phase # "ready" /\ queue' = Append(queue, r)
           /\ outcome' = [outcome EXCEPT ![r] = "waiting"]
           /\ UNCHANGED <<inFlight, up>>
  <2> DEFINE t == Make(Now, r)
  <2>2. Sound(t)
    BY <1>1, MakeSound
  <2>3. /\ t.queue = Append(queue, r) /\ t.sent = inFlight
        /\ t.outcome = [outcome EXCEPT ![r] = "waiting"]
        /\ t.asked = Append(asked, r) /\ t.up = up /\ t.down = down /\ t.executed = executed
        /\ t.current = generation /\ t.closed = closed /\ t.refused = refused
    BY DEF Make, Now
  <2> HIDE DEF t
  <2>4. Sound(Now)'
    BY <1>1, <1>3, <2>2, <2>3, NowIs
  <2> QED BY <1>1, <1>3, <2>4 DEF ChannelInv
<1>4. CASE outcome' = [outcome EXCEPT ![r] = "failed"] /\ UNCHANGED <<queue, inFlight, up>>
  <2> DEFINE t == MakeFailed(Now, r)
  <2>2. Sound(t)
    BY <1>1, MakeFailedSound
  <2>3. /\ t.queue = queue /\ t.sent = inFlight
        /\ t.outcome = [outcome EXCEPT ![r] = "failed"]
        /\ t.asked = Append(asked, r) /\ t.up = up /\ t.down = down /\ t.executed = executed
        /\ t.current = generation /\ t.closed = closed /\ t.refused = refused
    BY DEF MakeFailed, Now
  <2> HIDE DEF t
  <2>4. Sound(Now)'
    BY <1>1, <1>4, <2>2, <2>3, NowIs
  <2> QED BY <1>1, <1>4, <2>4 DEF ChannelInv
<1> QED BY <1>2, <1>3, <1>4 DEF IceRequest

LEMMA IceTimeoutSound ==
    ASSUME Sound(Now), ChannelInv, NEW r \in Requests, IceTimeout(r)
    PROVE  Sound(Now)' /\ ChannelInv'
<1>1. /\ outcome[r] = "waiting" /\ ~closed
      /\ UNCHANGED <<closed, asked, up, down, executed, refused>>
  BY DEF IceTimeout, Waiting, wireVars
<1>2. CASE r \in ToSet(inFlight)
  <2>1. Fence(Settled(outcome, {r}, "failed")) /\ UNCHANGED queue
    BY <1>2 DEF IceTimeout, Reconnect
  <2> QED BY <1>1, <1>2, <2>1, FenceSound
<1>3. CASE r \notin ToSet(inFlight)
  <2> DEFINE q == Without(queue, r)
             t == Fail(Now, r, q)
  <2>1. Distinct(queue) /\ queue \in Seq(Requests)
    BY NowFields DEF Sound, Single, Now
  <2>2. /\ q \in Seq(Requests) /\ ToSet(q) \subseteq ToSet(queue) /\ r \notin ToSet(q)
        /\ \A a, b : Precedes(q, a, b) => Precedes(queue, a, b)
    BY <2>1, WithoutFacts
  <2> HIDE DEF q
  <2>3. /\ Now.outcome[r] = "waiting" /\ r \notin ToSet(Now.sent) /\ Now.queue = queue
    BY <1>1, <1>3 DEF Now
  <2>4. Sound(t)
    BY <2>2, <2>3, FailSound
  <2>5. /\ t.queue = q /\ t.sent = inFlight /\ t.outcome = [outcome EXCEPT ![r] = "failed"]
        /\ t.asked = asked /\ t.up = up /\ t.down = down /\ t.executed = executed
        /\ t.current = generation /\ t.closed = closed /\ t.refused = refused
    BY DEF Fail, Now
  <2> HIDE DEF t
  <2>6. outcome' = [outcome EXCEPT ![r] = "failed"]
    BY <1>1, <1>3, NowFields DEF IceTimeout, Settled
  <2>7. queue' = q /\ UNCHANGED <<inFlight, generation, phase>>
    BY <1>3 DEF IceTimeout, q
  <2>8. Sound(Now)'
    BY <1>1, <2>4, <2>5, <2>6, <2>7, NowIs
  <2>9. queue = <<>> => q = <<>>
    <3>1. ToSet(q) = {} => q = <<>>
      BY <2>2, MemberFacts
    <3> QED BY <2>2, <3>1, EmptyFacts
  <2> QED BY <1>1, <2>7, <2>8, <2>9 DEF ChannelInv
<1> QED BY <1>2, <1>3

LEMMA IceResultSound ==
    ASSUME Sound(Now), ChannelInv, IceResult
    PROVE  Sound(Now)' /\ ChannelInv'
<1> DEFINE u == Answer(Now)
           h == Head(inFlight)
<1>1. Now.down[Now.current] # <<>> /\ ~Now.closed
  BY DEF IceResult, Now
<1>2. Sound(u)
  BY <1>1, AnswerSound
<1>3. /\ inFlight # <<>> /\ h = Head(down[generation]) /\ h \in Requests
      /\ Tail(inFlight) \in Seq(Requests) /\ outcome[h] = "waiting"
  <2>1. /\ Now.sent = inFlight /\ Now.down = down /\ Now.current = generation
        /\ Now.outcome = outcome
    BY DEF Now
  <2> HIDE DEF Now
  <2> QED BY <1>1, <2>1, AnswerFacts
<1>4. /\ u.queue = queue /\ u.sent = Tail(inFlight)
      /\ u.outcome = [outcome EXCEPT ![h] = "answered"]
      /\ u.asked = asked /\ u.up = up /\ u.down = [down EXCEPT ![generation] = Tail(@)]
      /\ u.executed = executed
      /\ u.current = generation /\ u.closed = closed /\ u.refused = refused
  BY DEF Answer, Now
<1> HIDE DEF u
<1>5. Settled(outcome, {h}, Value(h, Head(down[generation]))) = [outcome EXCEPT ![h] = "answered"]
  BY <1>3, NowFields DEF Settled, Value
<1>6. /\ inFlight' = Tail(inFlight) /\ outcome' = [outcome EXCEPT ![h] = "answered"]
      /\ down' = [down EXCEPT ![generation] = Tail(@)] /\ phase = "ready"
      /\ UNCHANGED <<phase, queue, asked, up, executed, generation, closed, refused>>
  BY <1>3, <1>5 DEF IceResult, connectionVars
<1>7. Sound(Now)'
  BY <1>2, <1>4, <1>6, NowIs
<1> QED BY <1>6, <1>7 DEF ChannelInv

\* The queue and what is in flight fail, at the end of the attempts or of everything.
LEMMA FailQueuedSound ==
    ASSUME Sound(Now), ChannelInv, ~closed, closed' \in BOOLEAN, closed' \/ inFlight = <<>>,
           outcome' = Settled(outcome, ToSet(queue \o inFlight), "failed"),
           queue' = <<>>, inFlight' = <<>>, phase' \in {phase, "stopped"},
           UNCHANGED <<asked, up, down, executed, generation, refused>>
    PROVE  Sound(Now)' /\ ChannelInv'
<1> DEFINE R == ToSet(queue \o inFlight)
           t == FailAll(Now, R, closed')
<1>1. R = ToSet(queue) \cup ToSet(inFlight)
  BY NowFields, ConcatFacts
<1>2. Sound(t)
  <2>1. Now.queue = queue /\ Now.sent = inFlight /\ Now.closed = closed
    BY DEF Now
  <2> HIDE DEF R, Now
  <2> QED BY <1>1, <2>1, FailAllSound
<1>3. /\ t.queue = <<>> /\ t.sent = <<>> /\ t.outcome = Settled(outcome, R, "failed")
      /\ t.asked = asked /\ t.up = up /\ t.down = down /\ t.executed = executed
      /\ t.current = generation /\ t.closed = closed' /\ t.refused = refused
  BY DEF FailAll, Now
<1> HIDE DEF t
<1>4. Sound(Now)'
  BY <1>2, <1>3, NowIs
<1> QED BY <1>4 DEF ChannelInv, Phases

LEMMA ChannelReadySound ==
    ASSUME Sound(Now), ChannelInv, ChannelReady
    PROVE  Sound(Now)' /\ ChannelInv'
<1> USE DEF Now
<1>1. /\ ~closed /\ inFlight = <<>> /\ phase' = "ready"
      /\ UNCHANGED <<closed, generation, outcome, asked, down, executed>>
      /\ queue \in Seq(Requests)
  BY NowFields DEF ChannelReady, ChannelInv
<1> DEFINE s == Now
<1>2. CASE Flush /\ UNCHANGED refused
  <2> DEFINE t == Send(Now, queue, <<>>)
  <2>1. queue = queue \o <<>> /\ <<>> \in Seq(Requests)
    BY <1>1, ConcatEmptySeq, EmptySeq
  <2>2. Now.queue = queue /\ Now.sent = inFlight /\ Now.closed = closed
    OBVIOUS
  <2>3. Sound(t)
    <3> HIDE DEF Now
    <3> QED BY <1>1, <2>1, <2>2, SendSound
  <2>4. /\ t.queue = <<>> /\ t.sent = queue /\ t.outcome = outcome
        /\ t.asked = asked /\ t.up = [up EXCEPT ![generation] = queue] /\ t.down = down
        /\ t.executed = executed
        /\ t.current = generation /\ t.closed = closed /\ t.refused = refused
    BY DEF Send
  <2> HIDE DEF t
  <2>5. Sound(Now)'
    <3> HIDE DEF Now
    <3> QED BY <1>1, <1>2, <2>3, <2>4, NowIs DEF Flush
  <2> QED BY <1>1, <1>2, <2>5 DEF ChannelInv, Phases, Flush
<1>3. ASSUME NEW n \in 1..Len(queue), FlushRefused(n), refused' = TRUE
      PROVE  Sound(Now)' /\ ChannelInv'
  <2> DEFINE p == SubSeq(queue, 1, n - 1)
             q == SubSeq(queue, n + 1, Len(queue))
             x == queue[n]
             u == Drop(Now, p \o q)
             t == Send(u, p, q)
  <2>1. p \in Seq(Requests) /\ q \in Seq(Requests) /\ x \in Requests /\ queue = (p \o <<x>>) \o q
    BY <1>1, SplitFacts
  <2> HIDE DEF p, q, x
  <2>2. <<x>> \in Seq(Requests) /\ ToSet(<<x>>) = {x} /\ (\A a, b : ~Precedes(<<x>>, a, b))
    BY <2>1, SingleFacts
  <2>3. /\ p \o <<x>> \in Seq(Requests) /\ ToSet(p \o <<x>>) = ToSet(p) \cup {x}
        /\ \A a, b : Precedes(p \o <<x>>, a, b) <=>
              Precedes(p, a, b) \/ (a \in ToSet(p) /\ b = x)
    BY <2>1, <2>2, ConcatFacts
  <2>4. /\ ToSet(queue) = ToSet(p) \cup {x} \cup ToSet(q)
        /\ \A a, b : Precedes(queue, a, b) <=>
              \/ Precedes(p \o <<x>>, a, b) \/ Precedes(q, a, b)
              \/ a \in ToSet(p) \cup {x} /\ b \in ToSet(q)
    BY <2>1, <2>3, ConcatFacts
  <2>5. /\ p \o q \in Seq(Requests) /\ ToSet(p \o q) = ToSet(p) \cup ToSet(q)
        /\ \A a, b : Precedes(p \o q, a, b) <=>
              \/ Precedes(p, a, b) \/ Precedes(q, a, b)
              \/ a \in ToSet(p) /\ b \in ToSet(q)
    BY <2>1, ConcatFacts
  <2>6. Distinct(p \o q)
    BY <2>3, <2>4, <2>5 DEF Distinct, Sound, Single
  <2>7. Now.queue = queue /\ Now.sent = inFlight /\ Now.closed = closed
    OBVIOUS
  <2>8. Sound(u)
    <3> HIDE DEF Now
    <3> QED BY <1>1, <2>4, <2>5, <2>6, <2>7, DropSound
  <2>9. /\ u.queue = p \o q /\ u.sent = inFlight /\ u.outcome = outcome
        /\ u.asked = asked /\ u.up = up /\ u.down = down /\ u.executed = executed
        /\ u.current = generation /\ u.closed = closed /\ u.refused = TRUE
    BY DEF Drop
  <2>10. /\ t.queue = q /\ t.sent = p /\ t.outcome = outcome
         /\ t.asked = asked /\ t.up = [up EXCEPT ![generation] = p] /\ t.down = down
         /\ t.executed = executed
         /\ t.current = generation /\ t.closed = closed /\ t.refused = TRUE
    BY DEF Send, Drop
  <2> HIDE DEF u
  <2>11. Sound(t)
    <3> HIDE DEF Now
    <3> QED BY <1>1, <2>1, <2>8, <2>9, SendSound
  <2> HIDE DEF t
  <2>12. Sound(Now)'
    <3>1. inFlight' = p /\ up' = [up EXCEPT ![generation] = p] /\ queue' = q
      BY <1>3 DEF FlushRefused, p, q
    <3> HIDE DEF Now
    <3> QED BY <3>1, <1>1, <1>3, <2>10, <2>11, NowIs
  <2> QED BY <1>1, <1>3, <2>12 DEF ChannelInv, Phases
<1> QED BY <1>2, <1>3 DEF ChannelReady

\* Every step of IceHostTransport and of the gateway.
LEMMA IceSound ==
    ASSUME Sound(Now), ChannelInv, IceNext
    PROVE  Sound(Now)' /\ ChannelInv'
<1> USE DEF connectionVars, requestVars, wireVars, Rest, Reconnect
<1> DEFINE Kept == UNCHANGED <<queue, inFlight, outcome, asked, up, down, executed, generation,
                               closed, refused>>
<1>a. ASSUME Kept, phase' \in {phase, "bridge", "asked", "offered", "answered", "channel"},
             phase' = phase \/ phase # "ready"
      PROVE  Sound(Now)' /\ ChannelInv'
  BY <1>a, OthersSound DEF ChannelInv, Phases
<1>b. ASSUME ~closed, Fence(outcome), UNCHANGED <<closed, queue, asked, up, down, executed, refused>>
      PROVE  Sound(Now)' /\ ChannelInv'
  BY <1>b, FenceSound
<1>1. ASSUME NEW r \in Requests, IceRequest(r) PROVE Sound(Now)' /\ ChannelInv'
  BY <1>1, IceRequestSound
<1>2. ASSUME NEW r \in Requests, IceTimeout(r) PROVE Sound(Now)' /\ ChannelInv'
  BY <1>2, IceTimeoutSound
<1>3. ASSUME NEW r \in Requests, RequestClosed(r) PROVE Sound(Now)' /\ ChannelInv'
  BY <1>3, RequestClosedSound DEF ChannelInv, RequestClosed
<1>4. ASSUME NEW g \in Generations, HostExecutes(g) PROVE Sound(Now)' /\ ChannelInv'
  BY <1>4, HostExecutesSound DEF ChannelInv, HostExecutes
<1>5. ASSUME NEW g \in Generations, ConnectionEnds(g) PROVE Sound(Now)' /\ ChannelInv'
  BY <1>5, ConnectionEndsSound DEF ChannelInv, ConnectionEnds
<1>6. CASE IceResult
  BY <1>6, IceResultSound
<1>7. CASE BeginAttempt
  <2>1. CASE attempts > MaxAttempts
    BY <1>7, <2>1, NowFields, FailQueuedSound DEF BeginAttempt, ChannelInv
  <2>2. CASE ~(attempts > MaxAttempts)
    BY <1>7, <2>2, <1>a DEF BeginAttempt
  <2> QED BY <2>1, <2>2
<1>8. CASE AskIce
  BY <1>8, <1>a DEF AskIce
<1>9. CASE IceRefused
  BY <1>9, <1>b DEF IceRefused
<1>10. CASE StaleFrame
  BY <1>10, <1>a DEF StaleFrame, transportVars
<1>11. CASE IceConfigured
  <2>1. CASE privacy = "relay" /\ Head(toClient).privacy # "relay"
    BY <1>11, <2>1, <1>b DEF IceConfigured, TookByClient
  <2>2. CASE ~(privacy = "relay" /\ Head(toClient).privacy # "relay")
    <3>1. CASE phase = "asked" /\ ~PassedOn(Head(toClient))
      BY <1>11, <2>2, <3>1, <1>b DEF IceConfigured, TookByClient
    <3>2. CASE ~(phase = "asked" /\ ~PassedOn(Head(toClient)))
      BY <1>11, <2>2, <3>2, <1>a DEF IceConfigured, TookByClient
    <3> QED BY <3>1, <3>2
  <2> QED BY <2>1, <2>2
<1>12. CASE IceAnswered
  BY <1>12, <1>a DEF IceAnswered, TookByClient
<1>13. CASE IceFailed
  BY <1>13, <1>b DEF IceFailed, TookByClient
<1>14. ASSUME NEW pair \in BOOLEAN, ChannelOpens(pair) PROVE Sound(Now)' /\ ChannelInv'
  <2>1. CASE PairAccepted(pair)
    BY <1>14, <2>1, <1>a DEF ChannelOpens
  <2>2. CASE ~PairAccepted(pair)
    BY <1>14, <2>2, <1>b DEF ChannelOpens
  <2> QED BY <2>1, <2>2
<1>15. CASE ChannelReady
  BY <1>15, ChannelReadySound
<1>16. CASE AttemptFails
  BY <1>16, <1>b DEF AttemptFails
<1>17. CASE BridgeRestarts
  BY <1>17, <1>b DEF BridgeRestarts
<1>18. CASE RefreshFires
  <2>1. CASE refreshTimer = generation /\ signaling[generation] # "none"
    BY <1>18, <2>1, <1>a DEF RefreshFires
  <2>2. CASE ~(refreshTimer = generation /\ signaling[generation] # "none") /\ phase \in OnBridge
    BY <1>18, <2>2, <1>b DEF RefreshFires
  <2>3. CASE ~(refreshTimer = generation /\ signaling[generation] # "none") /\ phase \notin OnBridge
    BY <1>18, <2>3, <1>a DEF RefreshFires
  <2> QED BY <2>1, <2>2, <2>3
<1>19. CASE IceCloses
  BY <1>19, FailQueuedSound DEF IceCloses
<1>20. CASE IceGatewayNext
  BY <1>20, <1>a DEF IceGatewayNext
<1> QED BY <1>1, <1>2, <1>3, <1>4, <1>5, <1>6, <1>7, <1>8, <1>9, <1>10, <1>11, <1>12, <1>13,
           <1>14, <1>15, <1>16, <1>17, <1>18, <1>19, <1>20 DEF IceNext

(***************************************************************************)
(* Sessions: what the gateway keeps of them.                               *)
(***************************************************************************)
HostFrames ==
    [type: {"ice.request", "offer", "ice.refresh", "signal.close"}, session: Generations,
     privacy: Privacy]

GateInv ==
    /\ authorized \subseteq Generations /\ policy \in [Generations -> Privacy]
    /\ privacy \in Privacy /\ hostPrivacy \in Privacy /\ generation \in Generations
    /\ toHost \in Seq(HostFrames)
    /\ turnQueue \in Seq(Generations) /\ Distinct(turnQueue)
    /\ TurnNeverStalls /\ SessionsAreAuthorized
    /\ hostPrivacy = "relay" => \A g \in authorized : policy[g] = "relay"

\* pumpTurnRequests leaves nobody waiting for nobody.
LEMMA PumpFacts ==
    ASSUME NEW q \in Seq(Generations), Distinct(q), NEW a, Pump(q, a)
    PROVE  /\ turnQueue' \in Seq(Generations) /\ Distinct(turnQueue)' /\ TurnNeverStalls'
           /\ ToSet(turnQueue') \cup ({activeTurn'} \ {NoSession})
                \subseteq ToSet(q) \cup ({a} \ {NoSession})
<1>1. CASE a = NoSession /\ q # <<>>
  <2>1. /\ Head(q) \in Generations /\ Tail(q) \in Seq(Generations)
        /\ ToSet(q) = {Head(q)} \cup ToSet(Tail(q))
        /\ \A x, y : Precedes(q, x, y) <=>
              Precedes(Tail(q), x, y) \/ (x = Head(q) /\ y \in ToSet(Tail(q)))
    BY <1>1, HeadTailFacts
  <2>2. turnQueue' = Tail(q) /\ activeTurn' = Head(q)
    BY <1>1 DEF Pump
  <2>3. Distinct(Tail(q))
    BY <2>1 DEF Distinct
  <2>4. Distinct(turnQueue')
    BY <2>2, <2>3
  <2> QED BY <2>1, <2>2, <2>4, SessionAssumption DEF TurnNeverStalls, Distinct, Precedes
<1>2. CASE ~(a = NoSession /\ q # <<>>)
  <2>1. turnQueue' = q /\ activeTurn' = a
    BY <1>2 DEF Pump
  <2>2. Distinct(turnQueue')
    BY <2>1
  <2> QED BY <1>2, <2>1, <2>2 DEF TurnNeverStalls, Distinct, Precedes
<1> QED BY <1>1, <1>2

\* cleanupSession takes a session's requests with it, and asks for the next.
LEMMA CleanupFacts ==
    ASSUME GateInv, NEW g, Cleanup(g)
    PROVE  /\ authorized' = authorized \ {g} /\ policy' = policy
           /\ turnQueue' \in Seq(Generations) /\ Distinct(turnQueue)'
           /\ TurnNeverStalls' /\ SessionsAreAuthorized'
<1> DEFINE q == Without(turnQueue, g)
           a == IF activeTurn = g THEN NoSession ELSE activeTurn
<1>1. q \in Seq(Generations) /\ ToSet(q) \subseteq ToSet(turnQueue) /\ g \notin ToSet(q)
      /\ \A x, y : Precedes(q, x, y) => Precedes(turnQueue, x, y)
  BY WithoutFacts DEF GateInv
<1>2. Distinct(q) /\ Pump(q, a)
  BY <1>1 DEF GateInv, Distinct, Cleanup
<1>3. {a} \ {NoSession} \subseteq {activeTurn} \ {NoSession} /\ g \notin {a} \ {NoSession}
  OBVIOUS
<1> HIDE DEF q, a
<1>4. /\ turnQueue' \in Seq(Generations) /\ Distinct(turnQueue)' /\ TurnNeverStalls'
      /\ ToSet(turnQueue') \cup ({activeTurn'} \ {NoSession})
           \subseteq ToSet(q) \cup ({a} \ {NoSession})
  BY <1>1, <1>2, PumpFacts
<1>5. SessionsAreAuthorized'
  BY <1>1, <1>3, <1>4 DEF Cleanup, GateInv, SessionsAreAuthorized
<1> QED BY <1>4, <1>5 DEF Cleanup

LEMMA RequestTurnFacts ==
    ASSUME GateInv, NEW g \in Generations, RequestTurn(g)
    PROVE  /\ turnQueue' \in Seq(Generations) /\ Distinct(turnQueue)' /\ TurnNeverStalls'
           /\ ToSet(turnQueue') \cup ({activeTurn'} \ {NoSession})
                \subseteq ToSet(turnQueue) \cup ({activeTurn} \ {NoSession}) \cup {g}
<1>1. CASE activeTurn = g \/ g \in ToSet(turnQueue)
  BY <1>1 DEF RequestTurn, GateInv, TurnNeverStalls, Distinct, Precedes
<1>2. CASE ~(activeTurn = g \/ g \in ToSet(turnQueue))
  <2> DEFINE q == Append(turnQueue, g)
  <2>0. turnQueue \in Seq(Generations)
    BY DEF GateInv
  <2>1. q \in Seq(Generations)
    BY <2>0, AppendProperties
  <2>2. /\ ToSet(q) = ToSet(turnQueue) \cup {g}
        /\ \A a, b : Precedes(q, a, b) <=> Precedes(turnQueue, a, b) \/ (a \in ToSet(turnQueue) /\ b = g)
    BY <2>0, AppendFacts
  <2>3. Distinct(q) /\ Pump(q, activeTurn)
    BY <1>2, <2>2 DEF GateInv, Distinct, RequestTurn
  <2> HIDE DEF q
  <2>4. /\ turnQueue' \in Seq(Generations) /\ Distinct(turnQueue)' /\ TurnNeverStalls'
        /\ ToSet(turnQueue') \cup ({activeTurn'} \ {NoSession})
             \subseteq ToSet(q) \cup ({activeTurn} \ {NoSession})
    BY <2>1, <2>3, PumpFacts
  <2> QED BY <2>2, <2>4
<1> QED BY <1>1, <1>2

\* A step of the gateway.
LEMMA GatewayInv ==
    ASSUME GateInv, IceGatewayNext, UNCHANGED iceVars
    PROVE  GateInv'
<1>0. UNCHANGED <<privacy, generation>>
  BY DEF IceGatewayNext, connectionVars, iceVars
<1>q. /\ toHost \in Seq(HostFrames) /\ turnQueue \in Seq(Generations)
      /\ toHost # <<>> => Head(toHost).session \in Generations /\ Tail(toHost) \in Seq(HostFrames)
  <2>1. toHost \in Seq(HostFrames)
    BY DEF GateInv
  <2>2. toHost # <<>> => Head(toHost) \in HostFrames /\ Tail(toHost) \in Seq(HostFrames)
    BY <2>1, HeadTailFacts
  <2> QED BY <2>1, <2>2 DEF HostFrames, GateInv
<1>1. ASSUME NEW yes \in BOOLEAN, TurnAnswered(yes) PROVE GateInv'
  <2>1. activeTurn # NoSession /\ CompleteTurn(activeTurn, yes) /\ UNCHANGED <<hostPrivacy, toHost>>
        /\ activeTurn \in authorized
    BY <1>1 DEF TurnAnswered, GateInv, SessionsAreAuthorized
  <2>2. CASE policy[activeTurn] = "relay" /\ ~yes
    <3>1. Cleanup(activeTurn)
      BY <2>1, <2>2 DEF CompleteTurn
    <3> QED BY <3>1, <2>1, <1>0, CleanupFacts DEF GateInv
  <2>3. CASE ~(policy[activeTurn] = "relay" /\ ~yes)
    <3>1. configured' = configured \cup {activeTurn} /\ Pump(turnQueue, NoSession)
          /\ UNCHANGED <<authorized, policy, peers>>
      BY <2>1, <2>3 DEF CompleteTurn
    <3>2. /\ turnQueue' \in Seq(Generations) /\ Distinct(turnQueue)' /\ TurnNeverStalls'
          /\ ToSet(turnQueue') \cup ({activeTurn'} \ {NoSession})
               \subseteq ToSet(turnQueue) \cup ({NoSession} \ {NoSession})
      BY <3>1, PumpFacts DEF GateInv
    <3>3. SessionsAreAuthorized'
      BY <2>1, <3>1, <3>2 DEF GateInv, SessionsAreAuthorized
    <3> QED BY <1>0, <2>1, <3>1, <3>2, <3>3 DEF GateInv
  <2> QED BY <2>2, <2>3
<1>2. ASSUME NEW yes \in BOOLEAN, IceRequested(yes) PROVE GateInv'
  <2> DEFINE f == Head(toHost)
  <2>1. f.session \in Generations /\ toHost' \in Seq(HostFrames)
        /\ UNCHANGED <<configured, peers, hostPrivacy>>
    BY <1>2, <1>q DEF IceRequested, Took
  <2>2. CASE yes
    <3>1. /\ authorized' = authorized \cup {f.session}
          /\ policy' = [policy EXCEPT ![f.session] = Stricter(hostPrivacy, f.privacy)]
          /\ RequestTurn(f.session)
      BY <1>2, <2>2 DEF IceRequested
    <3> HIDE DEF f
    <3>2. /\ turnQueue' \in Seq(Generations) /\ Distinct(turnQueue)' /\ TurnNeverStalls'
          /\ ToSet(turnQueue') \cup ({activeTurn'} \ {NoSession})
               \subseteq ToSet(turnQueue) \cup ({activeTurn} \ {NoSession}) \cup {f.session}
      BY <2>1, <3>1, RequestTurnFacts
    <3>3. SessionsAreAuthorized'
      BY <2>1, <3>1, <3>2 DEF GateInv, SessionsAreAuthorized
    <3>4. policy' \in [Generations -> Privacy]
      BY <2>1, <3>1 DEF GateInv, Stricter, Privacy
    <3>5. ASSUME hostPrivacy' = "relay", NEW g \in authorized' PROVE policy'[g] = "relay"
      <4>1. Stricter(hostPrivacy, f.privacy) = "relay" BY <2>1, <3>5 DEF Stricter
      <4> QED BY <4>1, <2>1, <3>1, <3>5 DEF GateInv
    <3> QED BY <1>0, <2>1, <3>1, <3>2, <3>3, <3>4, <3>5 DEF GateInv
  <2>3. CASE ~yes
    <3>1. UNCHANGED <<authorized, policy, turnQueue, activeTurn>>
      BY <1>2, <2>3 DEF IceRequested
    <3> QED BY <1>0, <2>1, <3>1
            DEF GateInv, Distinct, Precedes, TurnNeverStalls, SessionsAreAuthorized
  <2> QED BY <2>2, <2>3
<1>3. ASSUME NEW yes \in BOOLEAN, OfferArrives(yes) PROVE GateInv'
  <2>1. toHost' \in Seq(HostFrames)
        /\ UNCHANGED <<authorized, policy, configured, turnQueue, activeTurn, hostPrivacy>>
    BY <1>3, <1>q DEF OfferArrives, Took
  <2>2. peers' \subseteq authorized
    BY <1>3 DEF OfferArrives, GateInv, SessionsAreAuthorized
  <2> QED BY <1>0, <2>1, <2>2
          DEF GateInv, Distinct, Precedes, TurnNeverStalls, SessionsAreAuthorized
<1>4. CASE IceRefreshed
  <2> DEFINE g == Head(toHost).session
  <2>1. g \in Generations /\ toHost' \in Seq(HostFrames)
        /\ UNCHANGED <<authorized, policy, configured, peers, hostPrivacy>>
    BY <1>4, <1>q DEF IceRefreshed, Took
  <2>2. CASE UNCHANGED <<turnQueue, activeTurn>>
    BY <1>0, <2>1, <2>2 DEF GateInv, Distinct, Precedes, TurnNeverStalls, SessionsAreAuthorized
  <2>3. CASE g \in authorized /\ RequestTurn(g)
    <3> HIDE DEF g
    <3>2. /\ turnQueue' \in Seq(Generations) /\ Distinct(turnQueue)' /\ TurnNeverStalls'
          /\ ToSet(turnQueue') \cup ({activeTurn'} \ {NoSession})
               \subseteq ToSet(turnQueue) \cup ({activeTurn} \ {NoSession}) \cup {g}
      BY <2>1, <2>3, RequestTurnFacts
    <3>3. SessionsAreAuthorized'
      BY <2>1, <2>3, <3>2 DEF GateInv, SessionsAreAuthorized
    <3> QED BY <1>0, <2>1, <3>2, <3>3 DEF GateInv
  <2> QED BY <1>4, <2>2, <2>3 DEF IceRefreshed
<1>5. CASE SignalClosed
  <2>1. Cleanup(Head(toHost).session) /\ toHost' \in Seq(HostFrames) /\ UNCHANGED hostPrivacy
    BY <1>5, <1>q DEF SignalClosed, Took
  <2> QED BY <1>0, <2>1, CleanupFacts DEF GateInv
<1>6. ASSUME NEW g \in Generations, SessionExpires(g) PROVE GateInv'
  <2>1. Cleanup(g) /\ UNCHANGED <<hostPrivacy, toHost>>
    BY <1>6 DEF SessionExpires, bridgeVars
  <2> QED BY <1>0, <2>1, CleanupFacts DEF GateInv
<1>7. CASE HostUnbinds
  <2>1. /\ authorized' = {} /\ configured' = {} /\ peers' = {} /\ turnQueue' = <<>>
        /\ activeTurn' = NoSession /\ toHost' = <<>> /\ UNCHANGED <<policy, hostPrivacy>>
    BY <1>7 DEF HostUnbinds, Dispose
  <2>2. Distinct(<<>>) /\ ToSet(<<>>) = {} /\ <<>> \in Seq(HostFrames) /\ <<>> \in Seq(Generations)
    BY EmptyFacts, EmptySeq DEF Distinct
  <2>3. Distinct(turnQueue')
    BY <2>1, <2>2
  <2> QED BY <1>0, <2>1, <2>2, <2>3
          DEF GateInv, Distinct, Precedes, TurnNeverStalls, SessionsAreAuthorized
<1>8. CASE HostReturns \/ HostRegisters
  BY <1>0, <1>8 DEF HostReturns, HostRegisters, bridgeVars, sessionVars, GateInv, Distinct, Precedes,
                    TurnNeverStalls, SessionsAreAuthorized
<1> QED BY <1>1, <1>2, <1>3, <1>4, <1>5, <1>6, <1>7, <1>8 DEF IceGatewayNext

(***************************************************************************)
(* Every step is one the promise allows.                                   *)
(***************************************************************************)
\* From the outcomes o to the outcomes p: only who waited failed.
OnlyFails(o, p) == \A r \in Requests : p[r] = o[r] \/ (o[r] = "waiting" /\ p[r] = "failed")

LEMMA SettledFails ==
    ASSUME NEW o \in [Requests -> Outcomes], NEW R
    PROVE  OnlyFails(o, Settled(o, R, "failed")) /\ Settled(o, R, "failed") \in [Requests -> Outcomes]
BY DEF OnlyFails, Settled, Outcomes

LEMMA DispatchFails ==
    ASSUME NEW q, NEW f, NEW o \in [Requests -> Outcomes], Dispatch(q, f, o)
    PROVE  OnlyFails(o, outcome')
BY SettledFails DEF Dispatch, OnlyFails

LEMMA SettleStep ==
    ASSUME Sound(Now)', executed' = executed, \A r \in Requests : Promise!Settles(r)
    PROVE  Promise!Next
<1>1. outcome' \in [Requests -> Outcomes]
  BY DEF Sound, Now, States
<1> QED BY <1>1 DEF Promise!Next, Promise!Settle, Outcomes

LEMMA FailsStep ==
    ASSUME Sound(Now)', executed' = executed, OnlyFails(outcome, outcome')
    PROVE  Promise!Next
<1>1. \A r \in Requests : Promise!Settles(r)
  BY DEF OnlyFails, Promise!Settles, Promise!ToSet, ToSet
<1> QED BY <1>1, SettleStep

LEMMA ExecutesStep ==
    ASSUME Sound(Now), NEW g \in Generations, HostExecutes(g)
    PROVE  Promise!Next
<1> DEFINE h == Head(up[g])
<1>1. up[g] \in Seq(Requests) /\ up[g] # <<>>
  BY NowFields DEF HostExecutes
<1>2. h \in Requests /\ h \in ToSet(up[g])
  BY <1>1, HeadTailFacts
<1>3. Now.up = up /\ Now.executed = executed /\ Now.outcome = outcome
  BY DEF Now
<1>4. outcome[h] # "new" /\ h \notin ToSet(executed)
  BY <1>2, <1>3 DEF Sound, Single
<1>5. executed' = Append(executed, h) /\ outcome' = outcome
  BY DEF HostExecutes, requestVars
<1> HIDE DEF h
<1>6. Promise!Execute(h)
  BY <1>4, <1>5 DEF Promise!Execute, Promise!ToSet, ToSet
<1> QED BY <1>2, <1>6 DEF Promise!Next

\* The oldest request in flight is answered; the host executed it.
LEMMA AnsweredStep ==
    ASSUME Sound(Now), Sound(Now)', ~closed, down[generation] # <<>>, executed' = executed,
           OnlyFails(Settled(outcome, {Head(inFlight)},
                             Value(Head(inFlight), Head(down[generation]))), outcome')
    PROVE  Promise!Next
<1> DEFINE h == Head(inFlight)
           o == Settled(outcome, {h}, Value(h, Head(down[generation])))
<1>1. /\ Now.sent = inFlight /\ Now.down = down /\ Now.current = generation
      /\ Now.outcome = outcome /\ Now.closed = closed /\ Now.executed = executed
  BY DEF Now
<1>2. inFlight # <<>> /\ h = Head(down[generation]) /\ h \in Requests /\ outcome[h] = "waiting"
  <2> HIDE DEF Now
  <2> QED BY <1>1, AnswerFacts
<1>3. h \in ToSet(executed)
  <2>1. down[generation] \in Seq(Requests) /\ generation \in Generations
    BY NowFields
  <2>2. h \in ToSet(down[generation])
    BY <2>1, <1>2, HeadTailFacts
  <2> QED BY <1>1, <2>1, <2>2 DEF Sound, Wired
<1>4. o = [outcome EXCEPT ![h] = "answered"] /\ outcome \in [Requests -> Outcomes]
  BY <1>2, NowFields DEF Settled, Value
<1> HIDE DEF h, o
<1>5. OnlyFails(o, outcome')
  BY DEF h, o
<1>6. \A r \in Requests : Promise!Settles(r)
  BY <1>2, <1>3, <1>4, <1>5 DEF OnlyFails, Promise!Settles, Promise!ToSet, ToSet
<1> QED BY <1>6, SettleStep

\* A request is made, and perhaps fails with others.
LEMMA MadeStep ==
    ASSUME Sound(Now), Sound(Now)', executed' = executed, NEW r \in Requests, Made(r),
           NEW v \in {"waiting", "failed"}, OnlyFails([outcome EXCEPT ![r] = v], outcome')
    PROVE  Promise!Next
<1>1. outcome \in [Requests -> Outcomes] /\ outcome[r] = "new"
  BY NowFields DEF Made
<1>2. \A x \in Requests : Promise!Settles(x)
  BY <1>1 DEF OnlyFails, Promise!Settles, Promise!ToSet, ToSet
<1> QED BY <1>2, SettleStep

LEMMA HostClientPromise ==
    ASSUME Sound(Now), Sound(Now)', HostClientNext
    PROVE  [Promise!Next]_<<outcome, executed>>
<1>0. outcome \in [Requests -> Outcomes]
  BY NowFields
<1>1. ASSUME NEW r \in Requests, ClientRequest(r) PROVE Promise!Next
  <2> DEFINE o == [outcome EXCEPT ![r] = "waiting"]
  <2>1. o \in [Requests -> Outcomes] /\ Made(r) /\ executed' = executed
    BY <1>0, <1>1 DEF ClientRequest, Outcomes
  <2>2. Dispatch(Append(queue, r), inFlight, o) \/ outcome' = o
    BY <1>1 DEF ClientRequest
  <2> HIDE DEF o
  <2>3. OnlyFails(o, outcome')
    BY <2>1, <2>2, DispatchFails DEF OnlyFails
  <2> QED BY <2>1, <2>3, MadeStep DEF o
<1>2. ASSUME NEW r \in Requests, ClientTimeout(r) PROVE Promise!Next
  BY <1>0, <1>2, SettledFails, FailsStep DEF ClientTimeout, wireVars
<1>3. ASSUME NEW r \in Requests, RequestClosed(r) PROVE Promise!Next
  <2>1. Made(r) /\ outcome' = [outcome EXCEPT ![r] = "failed"] /\ executed' = executed
    BY <1>3 DEF RequestClosed, wireVars
  <2>2. OnlyFails([outcome EXCEPT ![r] = "failed"], outcome')
    BY <2>1 DEF OnlyFails
  <2> QED BY <2>1, <2>2, MadeStep
<1>4. ASSUME NEW g \in Generations, HostExecutes(g) PROVE Promise!Next
  BY <1>4, ExecutesStep
<1>5. ASSUME UNCHANGED <<outcome, executed>> PROVE UNCHANGED <<outcome, executed>>
  BY <1>5
<1>6. ASSUME Ends PROVE Promise!Next
  BY <1>0, <1>6, SettledFails, FailsStep DEF Ends, wireVars
<1>7. CASE SocketReady
  BY <1>0, <1>7, DispatchFails, FailsStep DEF SocketReady
<1>8. CASE ResultArrives
  <2>1. ~closed /\ down[generation] # <<>> /\ executed' = executed
    BY <1>8 DEF ResultArrives
  <2>2. CASE inFlight = <<>>
    BY <1>8, <2>2 DEF ResultArrives
  <2>3. CASE inFlight # <<>>
    <3> DEFINE h == Head(inFlight)
               o == Settled(outcome, {h}, Value(h, Head(down[generation])))
    <3>1. o = [outcome EXCEPT ![h] = "answered"]
      <4>1. /\ Now.sent = inFlight /\ Now.down = down /\ Now.current = generation
            /\ Now.outcome = outcome /\ Now.closed = closed
        BY DEF Now
      <4>2. h = Head(down[generation]) /\ h \in Requests /\ outcome[h] = "waiting"
        <5> HIDE DEF Now
        <5> QED BY <2>1, <4>1, AnswerFacts
      <4> QED BY <1>0, <4>2 DEF Settled, Value
    <3>2. o \in [Requests -> Outcomes] /\ Dispatch(queue, Tail(inFlight), o)
      BY <1>0, <3>1, <1>8, <2>3 DEF ResultArrives, Outcomes
    <3> HIDE DEF o
    <3>3. OnlyFails(o, outcome')
      BY <3>2, DispatchFails
    <3> QED BY <2>1, <3>3, AnsweredStep DEF o
  <2> QED BY <2>2, <2>3
<1>9. ASSUME NEW g \in Generations, ConnectionEnds(g) PROVE UNCHANGED <<outcome, executed>>
  BY <1>9 DEF ConnectionEnds, requestVars
<1>10. CASE SocketOpens \/ Challenge \/ Confirmed
  BY <1>10 DEF SocketOpens, Challenge, Confirmed, requestVars, wireVars
<1>11. CASE Rejected \/ SocketCloses
  BY <1>11, <1>6 DEF Rejected, SocketCloses
<1> QED BY <1>1, <1>2, <1>3, <1>4, <1>7, <1>8, <1>9, <1>10, <1>11 DEF HostClientNext

LEMMA IcePromise ==
    ASSUME Sound(Now), Sound(Now)', IceNext
    PROVE  [Promise!Next]_<<outcome, executed>>
<1> USE DEF connectionVars, requestVars, wireVars, Rest, Reconnect
<1>0. outcome \in [Requests -> Outcomes]
  BY NowFields
<1>b. ASSUME Fence(outcome), UNCHANGED executed PROVE Promise!Next
  BY <1>0, <1>b, SettledFails, FailsStep DEF Fence
<1>1. ASSUME NEW r \in Requests, IceRequest(r) PROVE Promise!Next
  <2>1. Made(r) /\ executed' = executed /\ \E v \in {"waiting", "failed"} : outcome' = [outcome EXCEPT ![r] = v]
    BY <1>1 DEF IceRequest
  <2>2. PICK v \in {"waiting", "failed"} : outcome' = [outcome EXCEPT ![r] = v]
    BY <2>1
  <2>3. OnlyFails([outcome EXCEPT ![r] = v], outcome')
    BY <2>2 DEF OnlyFails
  <2> QED BY <2>1, <2>3, MadeStep
<1>2. ASSUME NEW r \in Requests, IceTimeout(r) PROVE Promise!Next
  <2> DEFINE o == Settled(outcome, {r}, "failed")
  <2>1. executed' = executed /\ (Fence(o) \/ outcome' = o)
    BY <1>2 DEF IceTimeout
  <2>2. o \in [Requests -> Outcomes] /\ OnlyFails(outcome, o)
    BY <1>0, SettledFails
  <2> HIDE DEF o
  <2>3. OnlyFails(o, outcome')
    BY <2>1, <2>2, SettledFails DEF Fence, OnlyFails
  <2>4. OnlyFails(outcome, outcome')
    BY <2>2, <2>3 DEF OnlyFails
  <2> QED BY <2>1, <2>4, FailsStep
<1>3. ASSUME NEW r \in Requests, RequestClosed(r) PROVE Promise!Next
  <2>1. Made(r) /\ outcome' = [outcome EXCEPT ![r] = "failed"] /\ executed' = executed
    BY <1>3 DEF RequestClosed
  <2>2. OnlyFails([outcome EXCEPT ![r] = "failed"], outcome')
    BY <2>1 DEF OnlyFails
  <2> QED BY <2>1, <2>2, MadeStep
<1>4. ASSUME NEW g \in Generations, HostExecutes(g) PROVE Promise!Next
  BY <1>4, ExecutesStep
<1>5. ASSUME NEW g \in Generations, ConnectionEnds(g) PROVE UNCHANGED <<outcome, executed>>
  BY <1>5 DEF ConnectionEnds
<1>6. CASE IceResult
  <2>1. ~closed /\ down[generation] # <<>> /\ executed' = executed
    BY <1>6 DEF IceResult
  <2>2. CASE inFlight = <<>>
    BY <1>6, <2>2 DEF IceResult
  <2>3. CASE inFlight # <<>>
    <3>1. OnlyFails(Settled(outcome, {Head(inFlight)},
                            Value(Head(inFlight), Head(down[generation]))), outcome')
      BY <1>6, <2>3 DEF IceResult, OnlyFails
    <3> QED BY <2>1, <3>1, AnsweredStep
  <2> QED BY <2>2, <2>3
<1>7. CASE BeginAttempt
  <2>1. executed' = executed /\ (outcome' = outcome
            \/ outcome' = Settled(outcome, ToSet(queue \o inFlight), "failed"))
    BY <1>7 DEF BeginAttempt
  <2> QED BY <1>0, <2>1, SettledFails, FailsStep
<1>8. CASE AskIce \/ StaleFrame \/ IceAnswered \/ ChannelReady
  BY <1>8 DEF AskIce, StaleFrame, IceAnswered, ChannelReady, transportVars
<1>9. CASE IceRefused \/ IceFailed \/ AttemptFails \/ BridgeRestarts
  BY <1>9, <1>b DEF IceRefused, IceFailed, AttemptFails, BridgeRestarts
<1>10. CASE IceConfigured \/ RefreshFires \/ \E pair \in BOOLEAN : ChannelOpens(pair)
  BY <1>10, <1>b DEF IceConfigured, RefreshFires, ChannelOpens
<1>11. CASE IceCloses
  BY <1>0, <1>11, SettledFails, FailsStep DEF IceCloses
<1>12. CASE IceGatewayNext
  BY <1>12 DEF IceGatewayNext
<1> QED BY <1>1, <1>2, <1>3, <1>4, <1>5, <1>6, <1>7, <1>8, <1>9, <1>10, <1>11, <1>12 DEF IceNext

\* The client's part in it: the frames it has passed on, and the end of the bridge.
LEMMA FrameFacts ==
    ASSUME GateInv, NEW type \in {"ice.request", "offer", "ice.refresh", "signal.close"},
           NEW p \in Privacy
    PROVE  Append(toHost, Frame(type, generation, p)) \in Seq(HostFrames)
<1>1. toHost \in Seq(HostFrames) /\ Frame(type, generation, p) \in HostFrames
  BY DEF GateInv, HostFrames, Frame
<1> QED BY <1>1, AppendProperties

LEMMA BridgeClosesFacts ==
    ASSUME GateInv, BridgeCloses(generation)
    PROVE  toHost' \in Seq(HostFrames)
<1>1. "direct" \in Privacy
  BY DEF Privacy
<1> QED BY <1>1, FrameFacts DEF BridgeCloses, GateInv

LEMMA GateKept ==
    ASSUME GateInv, generation' \in Generations, toHost' \in Seq(HostFrames),
           UNCHANGED <<sessionVars, privacy, hostPrivacy>>
    PROVE  GateInv'
BY DEF GateInv, sessionVars, Distinct, Precedes, TurnNeverStalls, SessionsAreAuthorized

LEMMA IceGate ==
    ASSUME GateInv, generation' \in Generations, IceNext
    PROVE  GateInv'
<1> USE DEF connectionVars, gatewayVars, bridgeVars, iceVars, Rest, Reconnect
<1>0. generation \in Generations /\ toHost \in Seq(HostFrames) /\ privacy \in Privacy
  BY DEF GateInv
<1>a. ASSUME UNCHANGED <<toHost, sessionVars, privacy, hostPrivacy>> PROVE GateInv'
  BY <1>0, <1>a, GateKept
<1>b. ASSUME BridgeCloses(generation), UNCHANGED <<sessionVars, privacy, hostPrivacy>> PROVE GateInv'
  BY <1>b, BridgeClosesFacts, GateKept
<1>c. ASSUME NEW type \in {"ice.request", "offer", "ice.refresh"},
             ToHost(Frame(type, generation, privacy)),
             UNCHANGED <<sessionVars, privacy, hostPrivacy>>
      PROVE GateInv'
  BY <1>0, <1>c, FrameFacts, GateKept DEF ToHost
<1>1. ASSUME NEW r \in Requests, IceRequest(r) \/ (RequestClosed(r) /\ UNCHANGED <<gatewayVars, iceVars>>)
      PROVE GateInv'
  BY <1>1, <1>a DEF IceRequest
<1>2. ASSUME NEW r \in Requests, IceTimeout(r) PROVE GateInv'
  BY <1>2, <1>a, <1>b DEF IceTimeout
<1>3. CASE UNCHANGED <<gatewayVars, iceVars>>
  BY <1>3, <1>a
<1>4. CASE IceResult \/ BeginAttempt \/ StaleFrame \/ IceAnswered \/ ChannelReady
  BY <1>4, <1>a DEF IceResult, BeginAttempt, StaleFrame, IceAnswered, ChannelReady
<1>5. CASE AskIce
  BY <1>5, <1>c DEF AskIce
<1>6. CASE IceRefused \/ IceFailed \/ AttemptFails
  BY <1>6, <1>b DEF IceRefused, IceFailed, AttemptFails
<1>7. CASE IceConfigured
  BY <1>7, <1>a, <1>b, <1>c DEF IceConfigured
<1>8. ASSUME NEW pair \in BOOLEAN, ChannelOpens(pair) PROVE GateInv'
  BY <1>8, <1>a, <1>b DEF ChannelOpens
<1>9. CASE BridgeRestarts
  <2>1. /\ authorized' = {} /\ configured' = {} /\ peers' = {} /\ turnQueue' = <<>>
        /\ activeTurn' = NoSession /\ toHost' = <<>> /\ UNCHANGED <<policy, hostPrivacy, privacy>>
    BY <1>9 DEF BridgeRestarts, Dispose
  <2>2. Distinct(<<>>) /\ ToSet(<<>>) = {} /\ <<>> \in Seq(HostFrames) /\ <<>> \in Seq(Generations)
    BY EmptyFacts, EmptySeq DEF Distinct
  <2>3. Distinct(turnQueue')
    BY <2>1, <2>2
  <2> QED BY <2>1, <2>2, <2>3
          DEF GateInv, Distinct, Precedes, TurnNeverStalls, SessionsAreAuthorized
<1>10. CASE RefreshFires
  BY <1>10, <1>a, <1>b, <1>c DEF RefreshFires
<1>11. CASE IceCloses
  BY <1>11, <1>a, <1>b DEF IceCloses
<1>12. CASE IceGatewayNext /\ UNCHANGED iceVars
  BY <1>12, GatewayInv
<1> QED BY <1>1, <1>2, <1>3, <1>4, <1>5, <1>6, <1>7, <1>8, <1>9, <1>10, <1>11, <1>12 DEF IceNext

(***************************************************************************)
(* What an open connection is worth.                                       *)
(***************************************************************************)
\* The key that was proved is the one that is pinned.
TrustInv ==
    /\ phase = "confirming" => hostTrust = None
    /\ phase \in {"proved", "ready"} => hostTrust = proven

LEMMA HostClientTrust ==
    ASSUME SocketInv, TrustInv, HostClientNext
    PROVE  /\ TrustInv'
           /\ hostTrust # None => hostTrust' = hostTrust
           /\ kind' = kind
<1> USE DEF clientVars, connectionVars, SocketInv, TrustInv
<1>a. ASSUME UNCHANGED clientVars, phase' \in {phase, "connecting"} \/ (phase \in {"proved", "ready"} /\ phase' = "ready")
      PROVE  TrustInv' /\ (hostTrust # None => hostTrust' = hostTrust)
  BY <1>a
<1>b. ASSUME NEW q, NEW f, NEW o, Dispatch(q, f, o) PROVE phase' \in {"connecting", "ready"}
  BY <1>b DEF Dispatch, Replace
<1>1. ASSUME NEW r \in Requests, ClientRequest(r) PROVE phase' \in {phase, "connecting"}
  BY <1>1, <1>b DEF ClientRequest
<1>2. ASSUME NEW r \in Requests, ClientTimeout(r) PROVE phase' \in {phase, "connecting"}
  BY <1>2 DEF ClientTimeout, Replace
<1>3. CASE \E r \in Requests : ClientRequest(r) \/ ClientTimeout(r)
  <2>1. UNCHANGED clientVars /\ kind' = kind
    BY <1>3 DEF ClientRequest, ClientTimeout
  <2> QED BY <2>1, <1>1, <1>2, <1>3, <1>a
<1>4. CASE \E r \in Requests : RequestClosed(r) /\ UNCHANGED clientVars
  BY <1>4, <1>a DEF RequestClosed
<1>5. CASE \E g \in Generations : (HostExecutes(g) \/ ConnectionEnds(g)) /\ UNCHANGED clientVars
  BY <1>5, <1>a DEF HostExecutes, ConnectionEnds
<1>6. CASE SocketOpens \/ Challenge \/ Confirmed
  BY <1>6 DEF SocketOpens, Challenge, Confirmed
<1>7. CASE Rejected \/ SocketCloses
  BY <1>7, <1>a DEF Rejected, SocketCloses, Ends
<1>8. CASE SocketReady
  <2>1. phase' \in {"connecting", "ready"} /\ phase = "proved" /\ UNCHANGED clientVars /\ kind' = kind
    BY <1>8, <1>b DEF SocketReady
  <2> QED BY <2>1, <1>a
<1>9. CASE ResultArrives
  <2>1. phase' \in {phase, "connecting", "ready"} /\ phase = "ready" /\ UNCHANGED clientVars
        /\ kind' = kind
    BY <1>9, <1>b DEF ResultArrives
  <2> QED BY <2>1, <1>a
<1> QED BY <1>3, <1>4, <1>5, <1>6, <1>7, <1>8, <1>9 DEF HostClientNext

\* A side that wants relays has them, as soon as a channel is open.
RelayInv ==
    phase \in {"channel", "ready"} /\ "relay" \in {privacy, hostPrivacy} => relayed

\* Between two openings there is a closing.
NoticeInv ==
    /\ notices \in Seq({"open", "closed"})
    /\ ~refused => /\ \A i \in 1..(Len(notices) - 1) : notices[i] # notices[i + 1]
                   /\ phase # "ready" => notices = <<>> \/ Last(notices) = "closed"

LEMMA NoticeFacts ==
    ASSUME NEW m \in {"open", "closed"}, NEW n \in Seq({"open", "closed"}),
           \A i \in 1..(Len(n) - 1) : n[i] # n[i + 1], n = <<>> \/ Last(n) # m
    PROVE  /\ Append(n, m) \in Seq({"open", "closed"}) /\ Last(Append(n, m)) = m
           /\ \A i \in 1..(Len(Append(n, m)) - 1) : Append(n, m)[i] # Append(n, m)[i + 1]
<1> DEFINE k == Len(n)
           a == Append(n, m)
<1>1. /\ k \in Nat /\ (k = 0 <=> n = <<>>) /\ a \in Seq({"open", "closed"}) /\ Len(a) = k + 1
      /\ (\A i \in 1..k : a[i] = n[i]) /\ a[k + 1] = m
  BY AppendProperties, LenProperties, EmptySeq
<1>2. n # <<>> => n[k] # m
  BY DEF Last
<1> HIDE DEF k, a
<1>3. Last(a) = m
  BY <1>1 DEF Last
<1>4. ASSUME NEW i \in 1..(Len(a) - 1) PROVE a[i] # a[i + 1]
  <2>1. i \in 1..k
    BY <1>1, <1>4
  <2>2. CASE i = k
    BY <1>1, <1>2, <2>1, <2>2
  <2>3. CASE i # k
    <3>1. i \in 1..(k - 1) /\ i + 1 \in 1..k
      BY <1>1, <2>1, <2>3
    <3> QED BY <3>1, <1>1, <2>1 DEF k
  <2> QED BY <2>2, <2>3
<1> QED BY <1>1, <1>3, <1>4 DEF a

LEMMA NotifyFacts ==
    ASSUME NoticeInv, NotifyClose, refused' = refused
    PROVE  NoticeInv'
<1>1. CASE notices # <<>> /\ Last(notices) = "closed"
  BY <1>1 DEF NotifyClose, NoticeInv, Last
<1>2. CASE ~(notices # <<>> /\ Last(notices) = "closed")
  <2>1. notices' = Append(notices, "closed") /\ notices \in Seq({"open", "closed"})
    BY <1>2 DEF NotifyClose, NoticeInv
  <2>2. notices' \in Seq({"open", "closed"})
    BY <2>1, AppendProperties
  <2>3. CASE refused
    BY <2>2, <2>3 DEF NoticeInv
  <2>4. CASE ~refused
    BY <2>1, <2>4, <1>2, NoticeFacts DEF NoticeInv
  <2> QED BY <2>3, <2>4
<1> QED BY <1>1, <1>2

LEMMA IceChannel ==
    ASSUME ChannelInv, GateInv, RelayInv, NoticeInv, refused \in BOOLEAN, IceNext
    PROVE  RelayInv' /\ NoticeInv' /\ kind' = kind
<1> USE DEF connectionVars, requestVars, wireVars, gatewayVars, sessionVars, bridgeVars, iceVars, Rest, Reconnect
<1>a. ASSUME UNCHANGED <<notices, refused>>, phase' = phase \/ (phase # "ready" /\ phase' # "ready")
      PROVE  NoticeInv'
  BY <1>a DEF NoticeInv, Last
<1>b. ASSUME Fence(outcome), UNCHANGED refused PROVE RelayInv' /\ NoticeInv'
  BY <1>b, NotifyFacts DEF Fence, RelayInv
<1>c. ASSUME UNCHANGED <<privacy, hostPrivacy, relayed>>,
             phase' = phase \/ phase' \notin {"channel", "ready"}
      PROVE  RelayInv'
  BY <1>c DEF RelayInv
<1>1. ASSUME NEW r \in Requests, IceRequest(r) PROVE RelayInv' /\ NoticeInv' /\ kind' = kind
  BY <1>1, <1>a, <1>c DEF IceRequest
<1>2. ASSUME NEW r \in Requests, IceTimeout(r) PROVE RelayInv' /\ NoticeInv' /\ kind' = kind
  <2>1. CASE r \in ToSet(inFlight)
    BY <1>2, <2>1, NotifyFacts DEF IceTimeout, Fence, RelayInv
  <2>2. CASE r \notin ToSet(inFlight)
    BY <1>2, <2>2, <1>a, <1>c DEF IceTimeout
  <2> QED BY <2>1, <2>2
<1>3. ASSUME NEW r \in Requests, RequestClosed(r), UNCHANGED <<gatewayVars, iceVars>>
      PROVE  RelayInv' /\ NoticeInv' /\ kind' = kind
  BY <1>3, <1>a, <1>c DEF RequestClosed
<1>4. ASSUME NEW g \in Generations, HostExecutes(g) \/ ConnectionEnds(g),
             UNCHANGED <<gatewayVars, iceVars>>
      PROVE  RelayInv' /\ NoticeInv' /\ kind' = kind
  BY <1>4, <1>a, <1>c DEF HostExecutes, ConnectionEnds
<1>5. CASE IceResult \/ StaleFrame
  BY <1>5, <1>a, <1>c DEF IceResult, StaleFrame, transportVars
<1>6. CASE BeginAttempt
  <2>1. CASE attempts > MaxAttempts
    BY <1>6, <2>1, NotifyFacts, <1>c DEF BeginAttempt
  <2>2. CASE ~(attempts > MaxAttempts)
    BY <1>6, <2>2, <1>a, <1>c DEF BeginAttempt
  <2> QED BY <2>1, <2>2
<1>7. CASE AskIce \/ IceAnswered
  BY <1>7, <1>a, <1>c DEF AskIce, IceAnswered
<1>8. CASE IceRefused \/ IceFailed \/ AttemptFails \/ BridgeRestarts
  BY <1>8, <1>b DEF IceRefused, IceFailed, AttemptFails, BridgeRestarts
<1>9. CASE IceConfigured
  <2>1. CASE privacy = "relay" /\ Head(toClient).privacy # "relay"
    BY <1>9, <2>1, <1>b DEF IceConfigured
  <2>2. CASE ~(privacy = "relay" /\ Head(toClient).privacy # "relay")
    <3>1. CASE phase = "asked" /\ ~PassedOn(Head(toClient))
      BY <1>9, <2>2, <3>1, <1>b DEF IceConfigured
    <3>2. CASE ~(phase = "asked" /\ ~PassedOn(Head(toClient)))
      BY <1>9, <2>2, <3>2, <1>a, <1>c DEF IceConfigured
    <3> QED BY <3>1, <3>2
  <2> QED BY <2>1, <2>2
<1>10. ASSUME NEW pair \in BOOLEAN, ChannelOpens(pair) PROVE RelayInv' /\ NoticeInv' /\ kind' = kind
  <2>1. CASE PairAccepted(pair)
    <3>1. hostPrivacy = "relay" => policy[generation] = "relay"
      BY <1>10 DEF ChannelOpens, GateInv, SessionsAreAuthorized
    <3>2. RelayInv'
      BY <1>10, <2>1, <3>1 DEF ChannelOpens, RelayInv, PairAccepted
    <3> QED BY <1>10, <2>1, <3>2, <1>a DEF ChannelOpens
  <2>2. CASE ~PairAccepted(pair)
    BY <1>10, <2>2, <1>b DEF ChannelOpens
  <2> QED BY <2>1, <2>2
<1>11. CASE ChannelReady
  <2>1. RelayInv' /\ kind' = kind
    BY <1>11 DEF ChannelReady, RelayInv
  <2>2. CASE refused' = TRUE
    <3>1. notices' \in Seq({"open", "closed"})
      BY <1>11, AppendProperties DEF ChannelReady, NoticeInv
    <3> QED BY <2>1, <2>2, <3>1 DEF NoticeInv
  <2>3. CASE refused' # TRUE
    <3>1. notices' = Append(notices, "open") /\ refused' = refused /\ ~refused /\ phase = "channel"
          /\ phase' = "ready"
      BY <1>11, <2>3 DEF ChannelReady
    <3>2. /\ notices \in Seq({"open", "closed"}) /\ (notices = <<>> \/ Last(notices) # "open")
          /\ \A i \in 1..(Len(notices) - 1) : notices[i] # notices[i + 1]
      BY <3>1 DEF NoticeInv
    <3>3. NoticeInv'
      BY <3>1, <3>2, NoticeFacts DEF NoticeInv
    <3> QED BY <2>1, <3>3
  <2> QED BY <2>2, <2>3
<1>12. CASE RefreshFires
  BY <1>12, <1>a, <1>b, <1>c DEF RefreshFires
<1>13. CASE IceCloses
  BY <1>13, NotifyFacts, <1>c DEF IceCloses
<1>14. CASE IceGatewayNext /\ UNCHANGED iceVars
  <2>1. UNCHANGED hostPrivacy
    BY <1>14 DEF IceGatewayNext, TurnAnswered, IceRequested, OfferArrives, IceRefreshed, SignalClosed,
                 SessionExpires, HostUnbinds, HostRegisters, HostReturns, Dispose
  <2> QED BY <1>14, <2>1, <1>a, <1>c DEF IceGatewayNext
<1> QED BY <1>1, <1>2, <1>3, <1>4, <1>5, <1>6, <1>7, <1>8, <1>9, <1>10, <1>11, <1>12, <1>13, <1>14
    DEF IceNext

(***************************************************************************)
(* Together.                                                               *)
(***************************************************************************)
Inv ==
    /\ Sound(Now) /\ GateInv
    /\ \/ kind = "ws" /\ SocketInv /\ TrustInv
       \/ kind = "ice" /\ ChannelInv /\ RelayInv /\ NoticeInv

LEMMA InitSound ==
    ASSUME TransportInit
    PROVE  Sound(Now)
<1>1. /\ Now.queue = <<>> /\ Now.sent = <<>> /\ Now.asked = <<>> /\ Now.executed = <<>>
      /\ Now.outcome = [r \in Requests |-> "new"]
      /\ Now.up = [g \in Generations |-> <<>>] /\ Now.down = [g \in Generations |-> <<>>]
      /\ Now.current = 1 /\ Now.closed = FALSE /\ Now.refused = FALSE
  BY DEF TransportInit, Now
<1>2. 1 \in Generations
  BY TransportAssumption DEF Generations
<1>3. Now \in States
  BY <1>2, EmptySeq DEF TransportInit, Now, States, Outcomes
<1> HIDE DEF Now
<1>4. <<>> = <<>> \o <<>>
  BY ConcatEmptySeq, EmptySeq
<1>5. Single(Now)
  BY <1>1, EmptyFacts DEF Single, Distinct
<1>6. Wired(Now)
  BY <1>1, <1>2, <1>4, EmptyFacts DEF Wired
<1>7. Settling(Now)
  BY <1>1, EmptyFacts DEF Settling
<1>8. InTurn(Now)
  BY <1>1, <1>2, EmptyFacts DEF InTurn, Ordered
<1> QED BY <1>3, <1>5, <1>6, <1>7, <1>8 DEF Sound

LEMMA InitInv == Init => Inv
<1> SUFFICES ASSUME Init PROVE Inv
  OBVIOUS
<1>1. Sound(Now) /\ generation = 1 /\ generation \in Generations
  BY InitSound, NowFields DEF Init, TransportInit
<1>2. GatewayInit /\ privacy \in Privacy
  BY DEF Init, IceInit, Privacy
<1>3. GateInv
  <2>1. Distinct(<<>>) /\ ToSet(<<>>) = {} /\ <<>> \in Seq(HostFrames) /\ <<>> \in Seq(Generations)
    BY EmptyFacts, EmptySeq DEF Distinct
  <2>2. Distinct(turnQueue)
    BY <1>2, <2>1 DEF GatewayInit
  <2> QED BY <1>1, <1>2, <2>1, <2>2
          DEF GatewayInit, GateInv, Privacy, TurnNeverStalls, SessionsAreAuthorized
<1>4. CASE kind = "ws" /\ HostClientInit
  <2>1. faults = 0 /\ inFlight = <<>> /\ Len(<<>>) = 0
    BY EmptySeq DEF Init, TransportInit
  <2>2. SocketInv
    BY <1>1, <1>4, <2>1, TransportAssumption DEF SocketInv, HostClientInit
  <2> QED BY <1>1, <1>3, <1>4, <2>2 DEF Inv, TrustInv, HostClientInit
<1>5. CASE kind = "ice" /\ IceInit
  <2>1. notices = <<>> /\ inFlight = <<>> /\ Len(<<>>) = 0 /\ <<>> \in Seq({"open", "closed"})
    BY EmptySeq DEF Init, TransportInit
  <2> QED BY <1>1, <1>3, <1>5, <2>1 DEF Inv, ChannelInv, RelayInv, NoticeInv, IceInit, Phases
<1> QED BY <1>4, <1>5 DEF Init

LEMMA NextInv == Inv /\ [Next]_vars => Inv'
<1> SUFFICES ASSUME Inv, [Next]_vars PROVE Inv'
  OBVIOUS
<1>1. CASE HostClientNext /\ UNCHANGED <<gatewayVars, iceVars>>
  <2>1. kind = "ws" /\ SocketInv /\ TrustInv
    BY <1>1 DEF HostClientNext, Inv
  <2>2. Sound(Now)' /\ SocketInv' /\ TrustInv' /\ kind' = kind
    BY <1>1, <2>1, HostClientSound, HostClientTrust DEF Inv
  <2>3. generation' \in Generations
    BY <2>2 DEF Sound, Now, States
  <2>4. GateInv'
    <3>1. GateInv /\ toHost' \in Seq(HostFrames)
      BY <1>1 DEF Inv, GateInv, gatewayVars, bridgeVars
    <3>2. UNCHANGED <<sessionVars, privacy, hostPrivacy>>
      BY <1>1 DEF gatewayVars, iceVars
    <3> QED BY <2>3, <3>1, <3>2, GateKept
  <2> QED BY <2>1, <2>2, <2>4 DEF Inv
<1>2. CASE IceNext /\ UNCHANGED clientVars
  <2>1. kind = "ice" /\ ChannelInv /\ RelayInv /\ NoticeInv
    BY <1>2 DEF IceNext, Inv
  <2>2. Sound(Now)' /\ ChannelInv' /\ RelayInv' /\ NoticeInv' /\ kind' = kind
    BY <1>2, <2>1, IceSound, IceChannel, NowFields DEF Inv
  <2>3. generation' \in Generations
    BY <2>2 DEF Sound, Now, States
  <2> QED BY <1>2, <2>1, <2>2, <2>3, IceGate DEF Inv
<1>3. CASE UNCHANGED vars
  <2>1. Sound(Now)'
    BY <1>3, OthersSound DEF Inv, vars, transportVars, connectionVars, requestVars, wireVars
  <2> QED BY <1>3, <2>1
          DEF Inv, vars, transportVars, connectionVars, clientVars, gatewayVars, bridgeVars,
              sessionVars, iceVars, GateInv, Distinct, Precedes, TurnNeverStalls,
              SessionsAreAuthorized, SocketInv, TrustInv, ChannelInv, RelayInv, NoticeInv, Last,
              requestVars, wireVars
<1> QED BY <1>1, <1>2, <1>3 DEF Next

LEMMA SpecInv == Spec => []Inv
BY InitInv, NextInv, PTL DEF Spec

LEMMA InvHolds ==
    Inv => RequestsInOrder
<1> SUFFICES ASSUME Inv PROVE RequestsInOrder
  OBVIOUS
<1>0. Sound(Now)
  BY DEF Inv
<1>1. /\ queue \in Seq(Requests) /\ inFlight \in Seq(Requests) /\ asked \in Seq(Requests)
      /\ outcome \in [Requests -> Outcomes] /\ executed \in Seq(Requests)
      /\ up[generation] \in Seq(Requests) /\ down[generation] \in Seq(Requests)
      /\ generation \in Generations
  BY <1>0, NowFields
<1>2. /\ Now.queue = queue /\ Now.sent = inFlight /\ Now.outcome = outcome
      /\ Now.asked = asked /\ Now.up = up /\ Now.down = down /\ Now.executed = executed
      /\ Now.current = generation /\ Now.closed = closed /\ Now.refused = refused
  BY DEF Now
<1> HIDE DEF Now
<1>3. ToSet(inFlight) \cap ToSet(queue) = {} /\ (closed => queue \o inFlight = <<>>)
  <2>1. CASE closed
    <3>1. queue = <<>> /\ inFlight = <<>> /\ <<>> \o <<>> = <<>>
      BY <1>0, <1>2, <2>1, ConcatEmptySeq, EmptySeq DEF Sound, Settling
    <3> QED BY <3>1, EmptyFacts
  <2>2. CASE ~closed
    BY <1>0, <1>2, <2>2, SentFacts
  <2> QED BY <2>1, <2>2
<1>4. \A r \in Requests : r \in ToSet(queue \o inFlight) => outcome[r] = "waiting"
  <2>1. ToSet(queue \o inFlight) = ToSet(queue) \cup ToSet(inFlight)
    BY <1>1, ConcatFacts
  <2> QED BY <1>0, <1>2, <2>1 DEF Sound, Settling
<1>5. ToSet(up[generation] \o down[generation]) \cap ToSet(queue) = {}
  <2>1. ToSet(up[generation] \o down[generation]) = ToSet(up[generation]) \cup ToSet(down[generation])
    BY <1>1, ConcatFacts
  <2>2. \A r \in ToSet(up[generation]) : r \notin ToSet(queue)
    BY <1>0, <1>1, <1>2 DEF Sound, Single
  <2>3. \A r \in ToSet(down[generation]) : r \in ToSet(executed)
    BY <1>0, <1>1, <1>2 DEF Sound, Wired
  <2>4. \A r \in ToSet(queue) : r \notin ToSet(executed)
    BY <1>0, <1>2 DEF Sound, Single
  <2> QED BY <2>1, <2>2, <2>3, <2>4
<1>6. TypeOK
  BY <1>1, <1>3, <1>4, <1>5 DEF Inv, TypeOK, SocketInv, ChannelInv, Phases
<1>7. InOrder
  <2> SUFFICES ASSUME ~refused, NEW i \in 1..Len(executed), NEW j \in 1..Len(executed), i < j,
                      Before(executed[j], executed[i])
               PROVE  outcome[executed[j]] = "failed"
    BY DEF InOrder
  <2>1. Precedes(executed, executed[i], executed[j])
    BY DEF Precedes
  <2>2. Prior(Now, executed[j], executed[i])
    BY <1>2 DEF Prior, Precedes, Before
  <2> QED BY <1>0, <1>2, <2>1, <2>2 DEF Sound, InTurn
<1> QED BY <1>6, <1>7 DEF RequestsInOrder

(***************************************************************************)
(* Results.                                                                *)
(***************************************************************************)
\* The requests of a client are in one place each, and the host executes them in the
\* order they were made, over HostClient and over IceHostTransport, for every number of
\* requests, connections and faults.
THEOREM RequestsStayInOrder == Spec => []RequestsInOrder
BY SpecInv, InvHolds, PTL

\* Either transport keeps the promise of interface Transport: a request is answered by
\* its own result or fails, once, and the host executes it at most once.
THEOREM TransportsKeepPromise == Spec => ImplementsPromise
<1>1. Init => Promise!Init
  BY DEF Init, TransportInit, Promise!Init
<1>2. Inv /\ Inv' /\ [Next]_vars => [Promise!Next]_<<outcome, executed>>
  <2> SUFFICES ASSUME Inv, Inv', [Next]_vars PROVE [Promise!Next]_<<outcome, executed>>
    OBVIOUS
  <2>1. Sound(Now) /\ Sound(Now)'
    BY DEF Inv
  <2>2. CASE HostClientNext
    BY <2>1, <2>2, HostClientPromise
  <2>3. CASE IceNext
    BY <2>1, <2>3, IcePromise
  <2>4. CASE UNCHANGED vars
    BY <2>4 DEF vars, transportVars, requestVars, wireVars
  <2> QED BY <2>2, <2>3, <2>4 DEF Next
<1> QED BY <1>1, <1>2, SpecInv, PTL DEF Spec, ImplementsPromise, Promise!Spec

\* What a client talks to, and over what, is what was agreed and authorized: the pinned
\* host, through relays when a side wants them (selectedPairMatchesPolicy at both ends),
\* for a session the gateway still has, whose credentials somebody asks for, and whose
\* ends and beginnings the application is told in turn.
THEOREM SessionsAreHeld == Spec => SessionsHold
<1>1. Inv => RelayOnly /\ NoticesAlternate /\ TurnNeverStalls /\ SessionsAreAuthorized
  BY DEF Inv, GateInv, RelayInv, NoticeInv, RelayOnly, NoticesAlternate
<1>2. Inv /\ [Next]_vars =>
        [/\ hostTrust # None => hostTrust' = hostTrust
         /\ phase' = "ready" /\ kind = "ws" => proven' = hostTrust']_<<transportVars, clientVars>>
  <2> SUFFICES ASSUME Inv, [Next]_vars
               PROVE  \/ UNCHANGED <<transportVars, clientVars>>
                      \/ /\ hostTrust # None => hostTrust' = hostTrust
                         /\ phase' = "ready" /\ kind = "ws" => proven' = hostTrust'
    OBVIOUS
  <2>1. CASE HostClientNext
    BY <2>1, HostClientTrust DEF Inv, HostClientNext, TrustInv
  <2>2. CASE IceNext /\ UNCHANGED clientVars
    BY <2>2 DEF IceNext, clientVars
  <2>3. CASE UNCHANGED vars
    BY <2>3 DEF vars
  <2> QED BY <2>1, <2>2, <2>3 DEF Next
<1> QED BY <1>1, <1>2, SpecInv, PTL DEF Spec, SessionsHold, TrustIsPinned
===============================================================================
