---------------------------- MODULE Replica_proofs ----------------------------
(***************************************************************************)
(* What a replica wrote and registered is kept, nobody writes by a copy,   *)
(* and a grant that is no longer active opens nothing more: for any        *)
(* replicas, grants and faults.                                            *)
(*                                                                         *)
(* The argument: the database of the primary only moves on, whoever        *)
(* changes it (Follows), and an accepted grant that is not active there    *)
(* never is again.  Every copy - in a file, in hand, or installed by a     *)
(* replica that was not elected - is one the primary had, of epoch 0, and  *)
(* its op_log is a prefix of the primary's.  The primary stops writing     *)
(* before anybody is elected, so there is no copy that could replace the   *)
(* database of the elected one.                                            *)
(***************************************************************************)
EXTENDS Replica, SequenceTheorems, FiniteSetTheorems, WellFoundedInduction, TLAPS

Row == [host: Replicas, generation: Nat, accepted: BOOLEAN, revoked: BOOLEAN,
        revokedAt: Nat, enrolled: BOOLEAN]

\* The grants of a database: those of a host are signed in order, for one generation each.
RowsOK(d) ==
    /\ \A g \in DOMAIN d.grants : d.grants[g].enrolled => d.grants[g].accepted
    /\ \A f, g \in DOMAIN d.grants : f < g /\ d.grants[f].host = d.grants[g].host =>
           d.grants[f].generation < d.grants[g].generation
    /\ \E b \in Nat : \A g \in DOMAIN d.grants :
           d.grants[g].generation <= b /\ d.grants[g].revokedAt <= b

\* A grant of h that its member accepted, as d has it.
AcceptedIn(d, g, h) == g \in GrantsOf(d, h) /\ d.grants[g].accepted

\* What happens to the grants and members of a database, whoever changes it.
GrantsKept(d, e) ==
    /\ e.members \subseteq d.members
    /\ \A g \in DOMAIN d.grants :
          /\ g \in DOMAIN e.grants
          /\ e.grants[g].host = d.grants[g].host
          /\ e.grants[g].generation = d.grants[g].generation
          /\ d.grants[g].revokedAt <= e.grants[g].revokedAt
          /\ d.grants[g].accepted => e.grants[g].accepted
          /\ d.grants[g].revoked => e.grants[g].revoked

\* e is d, later: an accepted grant that is not active in d is not active in e.
Follows(d, e) ==
    /\ IsPrefix(d.log, e.log)
    /\ \A h \in Replicas : \A g \in GrantsOf(d, h) : d.grants[g].accepted =>
          AcceptedIn(e, g, h) /\ (Active(e, g) => Active(d, g))

(***************************************************************************)
(* Prefixes, maxima and generations.                                       *)
(***************************************************************************)
LEMMA PrefixIs ==
    ASSUME NEW S, NEW s \in Seq(S), NEW t \in Seq(S)
    PROVE  IsPrefix(s, t) <=> Len(s) <= Len(t) /\ \A i \in 1..Len(s) : s[i] = t[i]
<1>1. ASSUME Len(s) <= Len(t)
      PROVE  SubSeq(s, 1, Len(s)) = SubSeq(t, 1, Len(s)) <=> \A i \in 1..Len(s) : s[i] = t[i]
  <2>1. Len(s) \in Nat /\ Len(t) \in Nat
    BY LenProperties
  <2>2. /\ SubSeq(s, 1, Len(s)) = [i \in 1..Len(s) |-> s[i]]
        /\ SubSeq(t, 1, Len(s)) = [i \in 1..Len(s) |-> t[i]]
    BY <1>1, <2>1
  <2> QED BY <2>2
<1> QED BY <1>1 DEF IsPrefix

LEMMA PrefixOfItself ==
    ASSUME NEW S, NEW s \in Seq(S)
    PROVE  IsPrefix(s, s)
BY PrefixIs, LenProperties

LEMMA PrefixAppended ==
    ASSUME NEW S, NEW s \in Seq(S), NEW x \in S
    PROVE  IsPrefix(s, Append(s, x))
<1>1. Append(s, x) \in Seq(S) /\ Len(s) <= Len(Append(s, x)) /\ \A i \in 1..Len(s) : s[i] = Append(s, x)[i]
  BY AppendProperties, LenProperties
<1> QED BY <1>1, PrefixIs

LEMMA PrefixOfPrefix ==
    ASSUME NEW S, NEW s \in Seq(S), NEW t \in Seq(S), NEW u \in Seq(S),
           IsPrefix(s, t), IsPrefix(t, u)
    PROVE  IsPrefix(s, u)
<1>1. /\ Len(s) <= Len(t) /\ \A i \in 1..Len(s) : s[i] = t[i]
      /\ Len(t) <= Len(u) /\ \A i \in 1..Len(t) : t[i] = u[i]
      /\ Len(s) \in Nat /\ Len(t) \in Nat /\ Len(u) \in Nat
  BY PrefixIs, LenProperties
<1>2. Len(s) <= Len(u) /\ \A i \in 1..Len(s) : s[i] = u[i]
  BY <1>1
<1> QED BY <1>2, PrefixIs

\* Of two prefixes of one log, the shorter is a prefix of the longer.
LEMMA PrefixesOfOne ==
    ASSUME NEW S, NEW s \in Seq(S), NEW t \in Seq(S), NEW u \in Seq(S),
           IsPrefix(s, u), IsPrefix(t, u), Len(s) <= Len(t)
    PROVE  IsPrefix(s, t)
<1>1. /\ \A i \in 1..Len(s) : s[i] = u[i]
      /\ \A i \in 1..Len(t) : t[i] = u[i]
      /\ Len(s) \in Nat /\ Len(t) \in Nat
  BY PrefixIs, LenProperties
<1>2. \A i \in 1..Len(s) : s[i] = t[i]
  BY <1>1
<1> QED BY <1>2, PrefixIs

\* A bounded set of numbers has a maximum: its least upper bound.
LEMMA MaxIs ==
    ASSUME NEW S \in SUBSET Nat, S # {}, NEW b \in Nat, \A x \in S : x <= b
    PROVE  Max(S) \in S /\ \A x \in S : x <= Max(S)
<1> DEFINE bounds == {n \in Nat : \A x \in S : x <= n}
<1>1. PICK least \in bounds : \A n \in bounds : ~(n < least)
  <2>1. bounds \subseteq Nat /\ bounds # {}
    OBVIOUS
  <2>2. \E n \in bounds : \A m \in bounds : <<m, n>> \notin OpToRel(<, Nat)
    BY <2>1, WFMin, NatLessThanWellFounded
  <2> QED BY <2>1, <2>2 DEF OpToRel
<1>2. least \in S
  <2> SUFFICES ASSUME least \notin S PROVE FALSE
    OBVIOUS
  <2>1. least \in Nat /\ \A x \in S : x \in Nat /\ x <= least - 1
    OBVIOUS
  <2>2. least - 1 \in Nat
    <3>1. PICK x \in S : TRUE
      OBVIOUS
    <3> QED BY <2>1, <3>1
  <2> QED BY <2>1, <2>2, <1>1
<1>3. \E x \in S : \A y \in S : x >= y
  BY <1>2
<1> QED BY <1>3 DEF Max

LEMMA DatabaseOfRows ==
    Database = [epoch: {0, 1}, log: Seq(Hosts), grants: Seq(Row), members: SUBSET Replicas,
                writerState: [Hosts -> {"none", "writer", "fenced"}],
                enrollment: 0..MaxGrants, chain: 0..MaxChain]
BY DEF Database, Row

LEMMA DatabaseIs ==
    ASSUME NEW d \in Database
    PROVE  /\ d.log \in Seq(Hosts) /\ Len(d.log) \in Nat
           /\ d.grants \in Seq(Row) /\ Len(d.grants) \in Nat /\ DOMAIN d.grants = 1..Len(d.grants)
           /\ \A g \in DOMAIN d.grants : g \in Nat /\ d.grants[g] \in Row
<1>1. d.log \in Seq(Hosts) /\ d.grants \in Seq(Row)
  BY DEF Database, Row
<1>2. Len(d.log) \in Nat /\ Len(d.grants) \in Nat /\ DOMAIN d.grants = 1..Len(d.grants)
  BY <1>1, LenProperties
<1>3. \A g \in DOMAIN d.grants : g \in Nat /\ d.grants[g] \in Row
  BY <1>1, <1>2, ElementOfSeq
<1> QED BY <1>1, <1>2, <1>3

LEMMA GenerationIs ==
    ASSUME NEW d \in Database, RowsOK(d), NEW h
    PROVE  /\ Generation(d, h) \in Nat
           /\ \A g \in GrantsOf(d, h) : /\ d.grants[g].generation <= Generation(d, h)
                                        /\ d.grants[g].revokedAt <= Generation(d, h)
           /\ \/ Generation(d, h) = 0
              \/ \E g \in GrantsOf(d, h) :
                    Generation(d, h) \in {d.grants[g].generation, d.grants[g].revokedAt}
<1> DEFINE all == {0} \cup {d.grants[g].generation : g \in GrantsOf(d, h)}
                      \cup {d.grants[g].revokedAt : g \in GrantsOf(d, h)}
<1>1. \A g \in DOMAIN d.grants : d.grants[g].generation \in Nat /\ d.grants[g].revokedAt \in Nat
  BY DatabaseIs DEF Row
<1>2. PICK b \in Nat : \A g \in DOMAIN d.grants :
          d.grants[g].generation <= b /\ d.grants[g].revokedAt <= b
  BY DEF RowsOK
<1>3. all \in SUBSET Nat /\ all # {} /\ \A x \in all : x <= b
  BY <1>1, <1>2 DEF GrantsOf
<1>4. Max(all) \in all /\ \A x \in all : x <= Max(all)
  <2> HIDE DEF all
  <2> QED BY <1>2, <1>3, MaxIs
<1> QED BY <1>3, <1>4 DEF Generation

\* One grant of a host is active at most.
LEMMA OneActive ==
    ASSUME NEW d \in Database, RowsOK(d), NEW h \in Replicas
    PROVE  Cardinality({g \in GrantsOf(d, h) : Active(d, g)}) <= 1
<1> DEFINE active == {g \in GrantsOf(d, h) : Active(d, g)}
<1>1. \A f, g \in active : f = g
  <2> SUFFICES ASSUME NEW f \in active, NEW g \in active, f < g PROVE FALSE
    BY DatabaseIs DEF GrantsOf
  <2>1. d.grants[f].generation < d.grants[g].generation
    BY DEF GrantsOf, RowsOK
  <2>2. d.grants[f].generation = d.grants[g].generation
    BY DEF GrantsOf, Active
  <2>3. d.grants[f].generation \in Nat
    BY DatabaseIs DEF GrantsOf, Row
  <2> QED BY <2>1, <2>2, <2>3
<1>2. active = {} \/ \E g : active = {g}
  BY <1>1
<1> HIDE DEF active
<1>3. Cardinality(active) <= 1
  <2>1. CASE active = {}
    BY <2>1, FS_EmptySet
  <2>2. CASE \E g : active = {g}
    BY <2>2, FS_Singleton
  <2> QED BY <1>2, <2>1, <2>2
<1> QED BY <1>3 DEF active

\* Generations do not go back, so a grant that lost its turn never has it again.
LEMMA KeptFollows ==
    ASSUME NEW d \in Database, NEW e \in Database, RowsOK(d), RowsOK(e), GrantsKept(d, e),
           IsPrefix(d.log, e.log)
    PROVE  Follows(d, e)
<1> SUFFICES ASSUME NEW h \in Replicas, NEW g \in GrantsOf(d, h), d.grants[g].accepted
             PROVE  AcceptedIn(e, g, h) /\ (Active(e, g) => Active(d, g))
  BY DEF Follows
<1>1. AcceptedIn(e, g, h)
  BY DEF GrantsKept, AcceptedIn, GrantsOf
<1>2. ASSUME Active(e, g) PROVE Active(d, g)
  <2>1. Generation(d, h) \in Nat /\ Generation(e, h) \in Nat
    BY GenerationIs
  <2>2. Generation(d, h) <= Generation(e, h)
    <3>1. CASE Generation(d, h) = 0
      BY <3>1, <2>1
    <3>2. CASE \E f \in GrantsOf(d, h) :
                  Generation(d, h) \in {d.grants[f].generation, d.grants[f].revokedAt}
      <4>1. PICK f \in GrantsOf(d, h) :
                  Generation(d, h) \in {d.grants[f].generation, d.grants[f].revokedAt}
        BY <3>2
      <4>2. /\ f \in GrantsOf(e, h) /\ e.grants[f].generation = d.grants[f].generation
            /\ d.grants[f].revokedAt <= e.grants[f].revokedAt
        BY DEF GrantsOf, GrantsKept
      <4>3. e.grants[f].generation <= Generation(e, h) /\ e.grants[f].revokedAt <= Generation(e, h)
        BY <4>2, GenerationIs
      <4>4. e.grants[f].revokedAt \in Nat /\ d.grants[f].revokedAt \in Nat
        BY <4>2, DatabaseIs DEF GrantsOf, Row
      <4> QED BY <2>1, <4>1, <4>2, <4>3, <4>4
    <3> QED BY <3>1, <3>2, GenerationIs
  <2>3. e.grants[g].generation = Generation(e, h) /\ e.grants[g].generation = d.grants[g].generation
    BY <1>2 DEF Active, GrantsOf, GrantsKept
  <2>4. d.grants[g].generation <= Generation(d, h)
    BY GenerationIs
  <2>5. d.grants[g].generation = Generation(d, h)
    BY <2>1, <2>2, <2>3, <2>4
  <2> QED BY <1>2, <2>5 DEF Active, GrantsOf, GrantsKept
<1> QED BY <1>1, <1>2

(***************************************************************************)
(* Databases made of databases.                                            *)
(***************************************************************************)
\* All but op_log, grants and members.
SameState(d, e) ==
    /\ e.epoch = d.epoch /\ e.writerState = d.writerState
    /\ e.enrollment = d.enrollment /\ e.chain = d.chain

LEMMA SameRows ==
    ASSUME NEW d \in Database, NEW e \in Database, RowsOK(d), e.grants = d.grants
    PROVE  RowsOK(e) /\ (e.members \subseteq d.members => GrantsKept(d, e))
<1>1. \A g \in DOMAIN d.grants : d.grants[g].revokedAt <= d.grants[g].revokedAt
  BY DatabaseIs DEF Row
<1> QED BY <1>1 DEF RowsOK, GrantsKept

LEMMA SameActive ==
    ASSUME NEW d, NEW e, e.grants = d.grants, e.members = d.members, NEW g
    PROVE  Active(e, g) <=> Active(d, g)
<1>1. \A h : Generation(e, h) = Generation(d, h)
  BY DEF Generation, GrantsOf
<1> QED BY <1>1 DEF Active

LEMMA LoggedIs ==
    ASSUME NEW d \in Database, NEW h \in Hosts
    PROVE  /\ Logged(d, h) \in Database /\ SameState(d, Logged(d, h))
           /\ Logged(d, h).grants = d.grants /\ Logged(d, h).members = d.members
           /\ Logged(d, h).log = Append(d.log, h)
           /\ Len(Logged(d, h).log) = Len(d.log) + 1
           /\ IsPrefix(d.log, Logged(d, h).log)
<1>1. Logged(d, h) = [d EXCEPT !.log = Append(d.log, h)]
  BY DEF Logged
<1>2. Append(d.log, h) \in Seq(Hosts) /\ Len(Append(d.log, h)) = Len(d.log) + 1
  BY DatabaseIs, AppendProperties
<1>3. Logged(d, h) \in Database
  BY <1>1, <1>2 DEF Database
<1>4. /\ SameState(d, Logged(d, h)) /\ Logged(d, h).grants = d.grants
      /\ Logged(d, h).members = d.members /\ Logged(d, h).log = Append(d.log, h)
  BY <1>1 DEF Database, SameState
<1>5. IsPrefix(d.log, Logged(d, h).log)
  BY <1>4, DatabaseIs, PrefixAppended
<1> QED BY <1>2, <1>3, <1>4, <1>5

\* A grant that is accepted, enrolled or revoked.
LEMMA GrantsReplaced ==
    ASSUME NEW d \in Database, NEW rows \in Seq(Row), NEW e, e = [d EXCEPT !.grants = rows]
    PROVE  /\ e \in Database /\ SameState(d, e) /\ e.log = d.log /\ e.members = d.members
           /\ e.grants = rows
<1>1. SameState(d, e) /\ e.log = d.log /\ e.members = d.members /\ e.grants = rows
  BY DEF Database, SameState
<1>2. e \in Database
  BY DatabaseOfRows
<1> QED BY <1>1, <1>2

LEMMA RowChanged ==
    ASSUME NEW d \in Database, RowsOK(d), NEW g \in DOMAIN d.grants, NEW row \in Row, NEW e,
           row.host = d.grants[g].host, row.generation = d.grants[g].generation,
           d.grants[g].revokedAt <= row.revokedAt, d.grants[g].accepted => row.accepted,
           d.grants[g].revoked => row.revoked, row.enrolled => row.accepted,
           e.grants = [d.grants EXCEPT ![g] = row], e.members = d.members
    PROVE  RowsOK(e) /\ GrantsKept(d, e)
<1> DEFINE rows == e.grants
<1>1. /\ DOMAIN rows = DOMAIN d.grants /\ rows[g] = row
      /\ \A f \in DOMAIN d.grants : f # g => rows[f] = d.grants[f]
  BY DatabaseIs
<1>2. \A f \in DOMAIN d.grants : rows[f].host = d.grants[f].host
                                 /\ rows[f].generation = d.grants[f].generation
  BY <1>1
<1>3. \A f \in DOMAIN d.grants :
          /\ d.grants[f].revokedAt \in Nat /\ rows[f].revokedAt \in Nat
          /\ d.grants[f].revokedAt <= rows[f].revokedAt
          /\ d.grants[f].accepted => rows[f].accepted
          /\ d.grants[f].revoked => rows[f].revoked
  <2>1. ASSUME NEW f \in DOMAIN d.grants PROVE d.grants[f].revokedAt \in Nat
    BY DatabaseIs DEF Row
  <2>2. row.revokedAt \in Nat
    BY DEF Row
  <2>3. ASSUME NEW f \in DOMAIN d.grants, f # g
        PROVE  rows[f] = d.grants[f] /\ d.grants[f].revokedAt <= d.grants[f].revokedAt
    BY <1>1, <2>1, <2>3
  <2> HIDE DEF rows
  <2> QED BY <1>1, <2>1, <2>2, <2>3
<1>4. RowsOK(e)
  <2>1. PICK b \in Nat : \A f \in DOMAIN d.grants :
            d.grants[f].generation <= b /\ d.grants[f].revokedAt <= b
    BY DEF RowsOK
  <2>2. row.revokedAt \in Nat
    BY DEF Row
  <2>3. \A f \in DOMAIN d.grants : d.grants[f].generation \in Nat /\ d.grants[f].revokedAt \in Nat
    BY DatabaseIs DEF Row
  <2>4. /\ b + row.revokedAt \in Nat
        /\ \A f \in DOMAIN d.grants : rows[f].generation <= b + row.revokedAt
                                      /\ rows[f].revokedAt <= b + row.revokedAt
    BY <1>1, <1>2, <2>1, <2>2, <2>3
  <2>5. \A f \in DOMAIN d.grants : rows[f].enrolled => rows[f].accepted
    BY <1>1 DEF RowsOK
  <2>6. \A f, x \in DOMAIN d.grants : f < x /\ rows[f].host = rows[x].host =>
            rows[f].generation < rows[x].generation
    BY <1>2 DEF RowsOK
  <2> QED BY <1>1, <2>4, <2>5, <2>6 DEF RowsOK
<1>5. GrantsKept(d, e)
  BY <1>1, <1>2, <1>3 DEF GrantsKept
<1> QED BY <1>4, <1>5

\* A grant that is signed.
LEMMA RowAdded ==
    ASSUME NEW d \in Database, RowsOK(d), NEW h \in Replicas, NEW row \in Row, NEW e,
           row.host = h, row.generation = Generation(d, h) + 1, row.revokedAt = 0, ~row.enrolled,
           e.grants = Append(d.grants, row), e.members = d.members
    PROVE  RowsOK(e) /\ GrantsKept(d, e)
<1> DEFINE rows == Append(d.grants, row)
           n    == Len(d.grants)
<1>1. /\ rows \in Seq(Row) /\ Len(rows) = n + 1 /\ rows[n + 1] = row
      /\ \A f \in 1..n : rows[f] = d.grants[f]
  BY DatabaseIs, AppendProperties
<1>2. n \in Nat /\ DOMAIN d.grants = 1..n /\ DOMAIN rows = 1..(n + 1)
  BY <1>1, DatabaseIs, LenProperties
<1> HIDE DEF rows
<1>4. e.grants = rows /\ e.members = d.members
  BY DEF rows
<1> HIDE DEF n
<1>5. Generation(d, h) \in Nat
      /\ \A f \in GrantsOf(d, h) : d.grants[f].generation <= Generation(d, h)
  BY GenerationIs
<1>6. \A f \in 1..n : d.grants[f].generation \in Nat /\ d.grants[f].revokedAt \in Nat
  BY <1>2, DatabaseIs DEF Row
<1>7. RowsOK(e)
  <2>1. PICK b \in Nat : \A f \in 1..n : d.grants[f].generation <= b /\ d.grants[f].revokedAt <= b
    BY <1>2 DEF RowsOK
  <2> DEFINE most == b + Generation(d, h) + 1
  <2>2. most \in Nat
    BY <1>5
  <2>3. ASSUME NEW f \in 1..(n + 1)
        PROVE  rows[f].generation <= most /\ rows[f].revokedAt <= most
    <3>1. CASE f \in 1..n
      <4>1. /\ rows[f] = d.grants[f]
            /\ d.grants[f].generation \in Nat /\ d.grants[f].revokedAt \in Nat
            /\ d.grants[f].generation <= b /\ d.grants[f].revokedAt <= b
        BY <1>1, <1>6, <2>1, <3>1
      <4>2. \A x \in Nat : x <= b => x <= most
        BY <1>5
      <4> HIDE DEF most
      <4> QED BY <4>1, <4>2
    <3>2. CASE f = n + 1
      BY <1>1, <1>5, <3>2
    <3> QED BY <1>2, <3>1, <3>2
  <2> HIDE DEF most
  <2>4. ASSUME NEW f \in 1..(n + 1), rows[f].enrolled PROVE rows[f].accepted
    <3>1. CASE f \in 1..n
      BY <1>1, <1>2, <2>4, <3>1 DEF RowsOK
    <3>2. CASE f = n + 1
      BY <1>1, <2>4, <3>2
    <3> QED BY <1>2, <3>1, <3>2
  <2>5. ASSUME NEW f \in 1..(n + 1), NEW g \in 1..(n + 1), f < g, rows[f].host = rows[g].host
        PROVE  rows[f].generation < rows[g].generation
    <3>1. CASE g \in 1..n
      <4>1. f \in 1..n
        BY <1>2, <2>5, <3>1
      <4> QED BY <1>1, <1>2, <2>5, <3>1, <4>1 DEF RowsOK
    <3>2. CASE g = n + 1
      <4>1. f \in 1..n /\ rows[f] = d.grants[f] /\ d.grants[f].host = h
        BY <1>1, <1>2, <2>5, <3>2
      <4>2. f \in GrantsOf(d, h)
        BY <1>2, <4>1 DEF GrantsOf
      <4>3. rows[f].generation <= Generation(d, h) /\ rows[f].generation \in Nat
        BY <4>1, <4>2, <1>5, <1>6
      <4>4. rows[g].generation = Generation(d, h) + 1
        BY <1>1, <3>2
      <4> QED BY <4>3, <4>4, <1>5
    <3> QED BY <1>2, <3>1, <3>2
  <2>6. \E x \in Nat : \A f \in 1..(n + 1) : rows[f].generation <= x /\ rows[f].revokedAt <= x
    BY <2>2, <2>3
  <2>7. \A f, g \in DOMAIN rows : f < g /\ rows[f].host = rows[g].host =>
            rows[f].generation < rows[g].generation
    BY <1>2, <2>5
  <2>8. /\ \A f \in DOMAIN rows : rows[f].enrolled => rows[f].accepted
        /\ \E x \in Nat : \A f \in DOMAIN rows : rows[f].generation <= x /\ rows[f].revokedAt <= x
    BY <1>2, <2>4, <2>6
  <2> QED BY <1>4, <2>7, <2>8 DEF RowsOK
<1>8. GrantsKept(d, e)
  <2>1. \A f \in 1..n : f \in DOMAIN rows /\ rows[f] = d.grants[f]
                        /\ d.grants[f].revokedAt <= rows[f].revokedAt
    BY <1>1, <1>2, <1>6
  <2> QED BY <1>2, <1>4, <2>1 DEF GrantsKept
<1> QED BY <1>7, <1>8

(***************************************************************************)
(* The invariant.                                                          *)
(***************************************************************************)
Modes == {"off", "installing", "replica", "writer", "resuming", "halted"}

Sealed == [grant: Grants, snapshot: Database]

InHand == [is: {"none", "pong", "denied"}, of: {None}] \cup [is: {"copy"}, of: Database]
             \cup [is: {"enrollment"}, of: Grants]

Typed ==
    /\ db \in [Hosts -> Database \cup {None}] /\ db[Primary] \in Database
    /\ mode \in [Hosts -> Modes]
    /\ candidates \subseteq Replicas
    /\ accepting \in [Replicas -> 0..MaxGrants]
    /\ file \in [Replicas -> Sealed \cup {None}]
    /\ reply \in [Replicas -> InHand]
    /\ elected \in Replicas \cup {None}
    /\ cut \in [Grants -> Nat \cup {None}]

\* c is a copy of what the database p of the primary was.
SnapshotOf(p, c) ==
    /\ RowsOK(c) /\ IsPrefix(c.log, p.log)
    /\ c.epoch = 0 /\ c.enrollment = 0 /\ \A r \in Replicas : c.writerState[r] = "none"

\* h has the database c by the grant g; from the entry `limit` of the primary on, the grant
\* was not active.
By(p, limit, h, g, c) ==
    /\ AcceptedIn(c, g, h) /\ AcceptedIn(p, g, h)
    /\ limit # None =>
          ~Active(p, g) /\ \A i \in DOMAIN c.log : c.log[i] = Primary => i <= limit

PrimaryInv ==
    /\ RowsOK(db[Primary]) /\ Len(db[Primary].log) <= MaxLog
    /\ db[Primary].enrollment = 0 /\ \A r \in Replicas : db[Primary].writerState[r] = "none"
    /\ mode[Primary] = "writer" => elected = None
    /\ elected = None => db[Primary].epoch = 0
    /\ \A g \in Grants : cut[g] # None =>
          ~Active(db[Primary], g) /\ \E h \in Replicas : AcceptedIn(db[Primary], g, h)

\* What the process of a replica is, by what it has.
ProcessInv(h) ==
    /\ mode[h] # "off" => db[h] # None
    /\ mode[h] = "installing" <=> reply[h].is = "enrollment"
    /\ reply[h].is \in {"pong", "denied", "copy"} => mode[h] = "replica"
    /\ mode[h] \notin {"off", "installing"} => db[h].enrollment # 0
    /\ mode[h] \in {"writer", "resuming"} => elected = h

DatabaseInv(h) ==
    /\ elected = h => db[h] # None /\ reply[h].is # "copy"
    /\ db[h] # None =>
          /\ RowsOK(db[h])
          /\ db[h].writerState[h] = "writer" => elected = h
          /\ h # elected => db[h].epoch = 0 /\ IsPrefix(db[h].log, db[Primary].log)
          /\ h = elected => db[h].epoch = 1 /\ Len(db[h].log) <= MaxLog + 1
          /\ db[h].enrollment # 0 =>
                By(db[Primary], cut[db[h].enrollment], h, db[h].enrollment, db[h])

CopiesInv(h) ==
    /\ accepting[h] # 0 => AcceptedIn(db[Primary], accepting[h], h)
    /\ file[h] # None =>
          /\ SnapshotOf(db[Primary], file[h].snapshot)
          /\ By(db[Primary], cut[file[h].grant], h, file[h].grant, file[h].snapshot)
    /\ mode[h] = "installing" => By(db[Primary], cut[reply[h].of], h, reply[h].of, db[h])
    /\ reply[h].is = "copy" =>
          /\ SnapshotOf(db[Primary], reply[h].of)
          /\ By(db[Primary], cut[db[h].enrollment], h, db[h].enrollment, reply[h].of)

\* h was told of the denial of its grant, and will not be told otherwise.
Denial(h) ==
    /\ elected # h /\ db[h] # None /\ mode[h] # "installing" /\ reply[h].is # "copy"
    /\ db[h].enrollment # 0 /\ db[h].grants[db[h].enrollment].revoked
    /\ ~Active(db[Primary], db[h].enrollment)

DenialInv(h) ==
    /\ reply[h].is = "denied" => ~Active(db[Primary], db[h].enrollment)
    /\ mode[h] = "halted" /\ elected # h => Denial(h)

ReplicaInv(h) == ProcessInv(h) /\ DatabaseInv(h) /\ CopiesInv(h) /\ DenialInv(h)

IInv == Typed /\ PrimaryInv /\ \A h \in Replicas : ReplicaInv(h)

(***************************************************************************)
(* What stays true of the copies while the primary's database moves on.    *)
(***************************************************************************)
LEMMA SnapshotStays ==
    ASSUME NEW p \in Database, NEW q \in Database, NEW c \in Database,
           SnapshotOf(p, c), Follows(p, q)
    PROVE  SnapshotOf(q, c)
<1>1. IsPrefix(c.log, q.log)
  BY DatabaseIs, PrefixOfPrefix DEF SnapshotOf, Follows
<1> QED BY <1>1 DEF SnapshotOf

\* The grant is cut off at no earlier an entry than those of the copies.
LEMMA ByStays ==
    ASSUME NEW p \in Database, NEW q \in Database, NEW c \in Database, NEW h \in Replicas, NEW g,
           NEW limit, NEW new, By(p, limit, h, g, c), Follows(p, q),
           \/ new = limit
           \/ new = Len(p.log) /\ IsPrefix(c.log, p.log) /\ ~Active(q, g)
    PROVE  By(q, new, h, g, c)
<1>1. AcceptedIn(q, g, h) /\ (Active(q, g) => Active(p, g))
  BY DEF By, Follows, AcceptedIn
<1>2. ASSUME IsPrefix(c.log, p.log) PROVE \A i \in DOMAIN c.log : i <= Len(p.log)
  <2>1. Len(c.log) <= Len(p.log) /\ DOMAIN c.log = 1..Len(c.log)
    BY <1>2, DatabaseIs, LenProperties, PrefixIs
  <2> QED BY <2>1, DatabaseIs
<1> QED BY <1>1, <1>2 DEF By

\* A grant is cut off in a step of a primary that writes, and only once.
CutBy(q) ==
    \A g \in Grants :
        \/ cut'[g] = cut[g]
        \/ /\ elected = None /\ cut[g] = None /\ cut'[g] = Len(db[Primary].log)
           /\ ~Active(q, g)

LEMMA CopyStays ==
    ASSUME NEW q \in Database, Typed, NEW h \in Replicas, NEW g \in Grants, NEW c \in Database,
           Follows(db[Primary], q), CutBy(q), By(db[Primary], cut[g], h, g, c),
           elected = None => IsPrefix(c.log, db[Primary].log)
    PROVE  By(q, cut'[g], h, g, c)
BY ByStays DEF Typed, CutBy

\* What a replica has is of its type.
LEMMA HandTyped ==
    ASSUME Typed, NEW h \in Replicas
    PROVE  /\ db[h] # None => db[h] \in Database
           /\ db[h] # None /\ db[h].enrollment # 0 => db[h].enrollment \in Grants
           /\ file[h] # None => file[h].grant \in Grants /\ file[h].snapshot \in Database
           /\ reply[h].is = "copy" => reply[h].of \in Database
           /\ reply[h].is = "enrollment" => reply[h].of \in Grants
<1>1. h \in Hosts
  BY DEF Hosts
<1>2. db[h] # None => db[h] \in Database
  BY <1>1 DEF Typed
<1>3. db[h] # None /\ db[h].enrollment # 0 => db[h].enrollment \in Grants
  BY <1>2, ReplicaAssumption DEF Database, Grants
<1>4. file[h] # None => file[h].grant \in Grants /\ file[h].snapshot \in Database
  BY DEF Typed, Sealed
<1>5. /\ reply[h].is = "copy" => reply[h].of \in Database
      /\ reply[h].is = "enrollment" => reply[h].of \in Grants
  BY DEF Typed, InHand
<1> QED BY <1>2, <1>3, <1>4, <1>5

\* A step of others: of the primary, or of another replica.
LEMMA Bystander ==
    ASSUME Typed, NEW r \in Replicas, ReplicaInv(r),
           db'[Primary] \in Database, Follows(db[Primary], db'[Primary]), CutBy(db'[Primary]),
           db'[r] = db[r], mode'[r] = mode[r], reply'[r] = reply[r],
           elected' = elected \/ (elected = None /\ elected' # r),
           file'[r] # None =>
               \/ file'[r] = file[r]
               \/ /\ SnapshotOf(db'[Primary], file'[r].snapshot)
                  /\ By(db'[Primary], cut'[file'[r].grant], r, file'[r].grant, file'[r].snapshot),
           \/ accepting'[r] \in {0, accepting[r]}
           \/ AcceptedIn(db'[Primary], accepting'[r], r)
    PROVE  ReplicaInv(r)'
<1> DEFINE p == db[Primary]
           q == db'[Primary]
<1>1. r # None
  BY ReplicaAssumption
<1>2. p \in Database
  BY DEF Typed
<1>3. ProcessInv(r)'
  BY <1>1 DEF ReplicaInv, ProcessInv
<1>4. DatabaseInv(r)'
  <2>1. (elected' = r => db[r] # None /\ reply[r].is # "copy")
    BY DEF ReplicaInv, DatabaseInv
  <2>2. ASSUME db[r] # None
        PROVE  /\ RowsOK(db[r])
               /\ db[r].writerState[r] = "writer" => elected' = r
               /\ r # elected' => db[r].epoch = 0 /\ IsPrefix(db[r].log, q.log)
               /\ r = elected' => db[r].epoch = 1 /\ Len(db[r].log) <= MaxLog + 1
    <3>1. /\ RowsOK(db[r])
          /\ db[r].writerState[r] = "writer" => elected' = r
          /\ r = elected' => db[r].epoch = 1 /\ Len(db[r].log) <= MaxLog + 1
      BY <1>1, <2>2 DEF ReplicaInv, DatabaseInv
    <3>2. r # elected' => db[r].epoch = 0 /\ IsPrefix(db[r].log, p.log)
      BY <1>1, <2>2 DEF ReplicaInv, DatabaseInv
    <3>3. IsPrefix(db[r].log, p.log) => IsPrefix(db[r].log, q.log)
      BY <1>2, <2>2, HandTyped, DatabaseIs, PrefixOfPrefix DEF Follows
    <3> QED BY <3>1, <3>2, <3>3
  <2>3. ASSUME db[r] # None, db[r].enrollment # 0
        PROVE  By(q, cut'[db[r].enrollment], r, db[r].enrollment, db[r])
    <3>1. /\ By(p, cut[db[r].enrollment], r, db[r].enrollment, db[r])
          /\ elected = None => IsPrefix(db[r].log, p.log)
      BY <1>1, <2>3 DEF ReplicaInv, DatabaseInv
    <3> QED BY <2>3, <3>1, HandTyped, CopyStays
  <2> QED BY <2>1, <2>2, <2>3 DEF DatabaseInv
<1>5. CopiesInv(r)'
  <2>1. accepting'[r] # 0 => AcceptedIn(q, accepting'[r], r)
    <3>1. accepting[r] # 0 => AcceptedIn(p, accepting[r], r)
      BY DEF ReplicaInv, CopiesInv
    <3>2. accepting[r] # 0 => AcceptedIn(q, accepting[r], r)
      BY <3>1 DEF Follows, AcceptedIn
    <3> QED BY <3>2
  <2>2. ASSUME file'[r] # None
        PROVE  /\ SnapshotOf(q, file'[r].snapshot)
               /\ By(q, cut'[file'[r].grant], r, file'[r].grant, file'[r].snapshot)
    <3>1. CASE file'[r] = file[r]
      <4>1. /\ SnapshotOf(p, file[r].snapshot) /\ IsPrefix(file[r].snapshot.log, p.log)
            /\ By(p, cut[file[r].grant], r, file[r].grant, file[r].snapshot)
            /\ file[r].grant \in Grants /\ file[r].snapshot \in Database
        BY <2>2, <3>1, HandTyped DEF ReplicaInv, CopiesInv, SnapshotOf
      <4> QED BY <1>2, <3>1, <4>1, SnapshotStays, CopyStays
    <3> QED BY <2>2, <3>1
  <2>3. mode[r] = "installing" => By(q, cut'[reply[r].of], r, reply[r].of, db[r])
    <3> SUFFICES ASSUME mode[r] = "installing" PROVE By(q, cut'[reply[r].of], r, reply[r].of, db[r])
      OBVIOUS
    <3>1. /\ By(p, cut[reply[r].of], r, reply[r].of, db[r])
          /\ elected = None => IsPrefix(db[r].log, p.log)
          /\ db[r] # None /\ reply[r].is = "enrollment"
      BY <1>1 DEF ReplicaInv, CopiesInv, DatabaseInv, ProcessInv
    <3> QED BY <3>1, HandTyped, CopyStays
  <2>4. ASSUME reply[r].is = "copy"
        PROVE  /\ SnapshotOf(q, reply[r].of)
               /\ By(q, cut'[db[r].enrollment], r, db[r].enrollment, reply[r].of)
    <3>1. /\ SnapshotOf(p, reply[r].of) /\ IsPrefix(reply[r].of.log, p.log)
          /\ By(p, cut[db[r].enrollment], r, db[r].enrollment, reply[r].of)
          /\ db[r] # None /\ db[r].enrollment # 0
      BY <2>4 DEF ReplicaInv, CopiesInv, ProcessInv, SnapshotOf
    <3> QED BY <1>2, <2>4, <3>1, HandTyped, SnapshotStays, CopyStays
  <2> QED BY <2>1, <2>2, <2>3, <2>4 DEF CopiesInv
<1>6. DenialInv(r)'
  <2>1. ASSUME db[r] # None, db[r].enrollment # 0, ~Active(p, db[r].enrollment)
        PROVE  ~Active(q, db[r].enrollment)
    <3>1. AcceptedIn(p, db[r].enrollment, r)
      BY <2>1 DEF ReplicaInv, DatabaseInv, By
    <3> QED BY <2>1, <3>1 DEF Follows, AcceptedIn
  <2>2. reply[r].is = "denied" => ~Active(q, db[r].enrollment)
    BY <2>1 DEF ReplicaInv, DenialInv, ProcessInv
  <2>3. mode[r] = "halted" /\ elected' # r => Denial(r)'
    BY <1>1, <2>1 DEF ReplicaInv, DenialInv, Denial
  <2> QED BY <2>2, <2>3 DEF DenialInv
<1> QED BY <1>3, <1>4, <1>5, <1>6 DEF ReplicaInv

(***************************************************************************)
(* What a step leaves of the databases: this, and the invariant.           *)
(***************************************************************************)
Grown(d, e) == e # None /\ IsPrefix(d.log, e.log) /\ e.chain >= d.chain

Kept ==
    /\ \A h \in Hosts : db[h] # None => db'[h] # None /\ IsPrefix(db[h].log, db'[h].log)
    /\ \A h \in Replicas : db[h] # None => db'[h].chain >= db[h].chain
    /\ \A h \in Replicas : Denial(h) => Denial(h)'

LEMMA SameGrown ==
    ASSUME NEW d \in Database, NEW e \in Database, e.log = d.log, e.chain = d.chain
    PROVE  Grown(d, e)
BY DatabaseIs, DatabaseOfRows, PrefixOfItself, ReplicaAssumption, NoneAssumption DEF Grown

LEMMA ItselfGrown ==
    ASSUME NEW d \in Database
    PROVE  Grown(d, d)
BY SameGrown

LEMMA LoggedGrown ==
    ASSUME NEW d \in Database, NEW e \in Database, NEW h \in Hosts, e.log = Append(d.log, h),
           e.chain = d.chain
    PROVE  Grown(d, e)
<1>1. IsPrefix(d.log, e.log)
  BY DatabaseIs, PrefixAppended
<1>2. d.chain >= d.chain
  BY DatabaseOfRows, ReplicaAssumption
<1> QED BY <1>1, <1>2, NoneAssumption DEF Grown

(***************************************************************************)
(* Steps of the primary.                                                   *)
(***************************************************************************)
LEMMA PrimaryStep ==
    ASSUME IInv, NEW q \in Database, db' = [db EXCEPT ![Primary] = q],
           RowsOK(q), Follows(db[Primary], q), Len(q.log) <= MaxLog,
           q.enrollment = 0, \A r \in Replicas : q.writerState[r] = "none",
           elected = None => q.epoch = 0,
           UNCHANGED <<reply, elected>>,
           mode' \in [Hosts -> Modes], \A r \in Replicas : mode'[r] = mode[r],
           mode'[Primary] = "writer" => elected = None,
           cut' \in [Grants -> Nat \cup {None}], CutBy(q),
           \A g \in Grants : cut'[g] # cut[g] => \E h \in Replicas : AcceptedIn(q, g, h),
           candidates' \subseteq Replicas, accepting' \in [Replicas -> 0..MaxGrants],
           file' \in [Replicas -> Sealed \cup {None}],
           \A r \in Replicas : accepting'[r] \in {0, accepting[r]} \/ AcceptedIn(q, accepting'[r], r),
           \A r \in Replicas : file'[r] # None =>
               \/ file'[r] = file[r]
               \/ /\ SnapshotOf(q, file'[r].snapshot)
                  /\ By(q, cut'[file'[r].grant], r, file'[r].grant, file'[r].snapshot)
    PROVE  IInv' /\ Kept
<1>1. Primary \in Hosts /\ \A r \in Replicas : r \in Hosts /\ r # Primary
  BY ReplicaAssumption DEF Hosts
<1>2. db'[Primary] = q /\ \A r \in Replicas : db'[r] = db[r]
  BY <1>1 DEF IInv, Typed
<1>3. Typed'
  BY <1>1 DEF IInv, Typed
<1>4. PrimaryInv'
  <2>1. ASSUME NEW g \in Grants, cut'[g] # None
        PROVE  ~Active(q, g) /\ \E h \in Replicas : AcceptedIn(q, g, h)
    <3>1. CASE cut'[g] = cut[g]
      <4>1. PICK h \in Replicas : AcceptedIn(db[Primary], g, h)
        BY <2>1, <3>1 DEF IInv, PrimaryInv
      <4>2. ~Active(db[Primary], g)
        BY <2>1, <3>1 DEF IInv, PrimaryInv
      <4> QED BY <4>1, <4>2 DEF Follows, AcceptedIn
    <3>2. CASE cut'[g] # cut[g]
      BY <3>2 DEF CutBy
    <3> QED BY <3>1, <3>2
  <2> QED BY <1>2, <2>1 DEF PrimaryInv
<1>5. ASSUME NEW r \in Replicas PROVE ReplicaInv(r)'
  BY <1>2, Bystander DEF IInv
<1>6. Kept
  <2>1. \A h \in Hosts : db[h] # None => Grown(db[h], db[h])
    BY ItselfGrown DEF IInv, Typed
  <2>2. q # None /\ IsPrefix(db[Primary].log, q.log)
    BY NoneAssumption DEF Follows
  <2>3. ASSUME NEW h \in Replicas, Denial(h) PROVE Denial(h)'
    <3>1. AcceptedIn(db[Primary], db[h].enrollment, h)
      BY <2>3 DEF Denial, IInv, ReplicaInv, DatabaseInv, By
    <3> QED BY <1>2, <2>3, <3>1 DEF Denial, Follows, AcceptedIn
  <2> QED BY <1>1, <1>2, <2>1, <2>2, <2>3 DEF Kept, Grown, Hosts
<1> QED BY <1>3, <1>4, <1>5, <1>6 DEF IInv

\* A command of the primary: d is its database before the entry of op_log.
LEMMA WritesStep ==
    ASSUME IInv, NEW d \in Database, PrimaryWrites(d), RowsOK(d), GrantsKept(db[Primary], d),
           SameState(db[Primary], d), d.log = db[Primary].log,
           UNCHANGED <<mode, file, reply, elected>>,
           candidates' \subseteq Replicas, accepting' \in [Replicas -> 0..MaxGrants],
           \A r \in Replicas : accepting'[r] \in {0, accepting[r]} \/ AcceptedIn(d, accepting'[r], r)
    PROVE  IInv' /\ Kept
<1> DEFINE p == db[Primary]
           q == Logged(d, Primary)
<1>1. /\ mode[Primary] = "writer" /\ Len(p.log) < MaxLog
      /\ db' = [db EXCEPT ![Primary] = q]
      /\ cut' = [g \in Grants |-> IF Active(p, g) /\ ~Active(d, g) THEN Len(p.log) ELSE cut[g]]
  BY DEF PrimaryWrites
<1>2. p \in Database /\ RowsOK(p) /\ elected = None
  BY <1>1 DEF IInv, Typed, PrimaryInv
<1>3. Primary \in Hosts
  BY DEF Hosts
<1>4. /\ q \in Database /\ SameState(d, q) /\ q.grants = d.grants /\ q.members = d.members
      /\ Len(q.log) = Len(p.log) + 1 /\ IsPrefix(p.log, q.log)
  BY <1>3, LoggedIs
<1> HIDE DEF q
<1>5. RowsOK(q) /\ GrantsKept(p, q)
  BY <1>4, SameRows DEF GrantsKept
<1>6. Follows(p, q)
  BY <1>2, <1>4, <1>5, KeptFollows
<1>7. \A g : Active(q, g) <=> Active(d, g)
  BY <1>4, SameActive
<1>8. cut' \in [Grants -> Nat \cup {None}]
  BY <1>1, <1>2, DatabaseIs DEF IInv, Typed
<1>9. CutBy(q)
  <2> SUFFICES ASSUME NEW g \in Grants, cut'[g] # cut[g]
               PROVE  cut[g] = None /\ cut'[g] = Len(p.log) /\ ~Active(q, g)
    BY <1>2 DEF CutBy
  <2>1. Active(p, g) /\ ~Active(d, g) /\ cut'[g] = Len(p.log)
    BY <1>1
  <2>2. cut[g] = None
    BY <2>1 DEF IInv, PrimaryInv
  <2> QED BY <2>1, <2>2, <1>7
<1>10. ASSUME NEW g \in Grants, cut'[g] # cut[g] PROVE \E h \in Replicas : AcceptedIn(q, g, h)
  <2>1. g \in DOMAIN p.grants /\ p.grants[g].accepted /\ p.grants[g].host \in Replicas
    BY <1>1, <1>2, <1>10, DatabaseIs DEF Active, Row
  <2>2. AcceptedIn(q, g, p.grants[g].host)
    BY <2>1, <1>5 DEF GrantsKept, AcceptedIn, GrantsOf
  <2> QED BY <2>1, <2>2
<1>11. /\ q.enrollment = 0 /\ q.epoch = 0 /\ \A r \in Replicas : q.writerState[r] = "none"
       /\ Len(q.log) <= MaxLog
  <2>1. p.enrollment = 0 /\ p.epoch = 0 /\ \A r \in Replicas : p.writerState[r] = "none"
    BY <1>2 DEF IInv, PrimaryInv
  <2>2. Len(q.log) <= MaxLog
    BY <1>1, <1>2, <1>4, DatabaseIs, ReplicaAssumption
  <2> QED BY <1>4, <2>1, <2>2 DEF SameState
<1>12. \A r \in Replicas : accepting'[r] \in {0, accepting[r]} \/ AcceptedIn(q, accepting'[r], r)
  BY <1>4 DEF AcceptedIn, GrantsOf
<1>13. /\ mode' \in [Hosts -> Modes] /\ \A r \in Replicas : mode'[r] = mode[r]
       /\ mode'[Primary] = "writer" => elected = None
       /\ file' \in [Replicas -> Sealed \cup {None}] /\ \A r \in Replicas : file'[r] = file[r]
  BY <1>2 DEF IInv, Typed
<1> HIDE DEF p
<1> QED
  BY <1>1, <1>4, <1>5, <1>6, <1>8, <1>9, <1>10, <1>11, <1>12, <1>13, PrimaryStep DEF p

LEMMA PrimaryIs ==
    ASSUME IInv
    PROVE  /\ db[Primary] \in Database /\ RowsOK(db[Primary]) /\ Primary \in Hosts
           /\ IsPrefix(db[Primary].log, db[Primary].log)
           /\ GrantsKept(db[Primary], db[Primary]) /\ Follows(db[Primary], db[Primary])
           /\ SameState(db[Primary], db[Primary])
           /\ Len(db[Primary].log) <= MaxLog
<1>1. db[Primary] \in Database /\ RowsOK(db[Primary]) /\ Primary \in Hosts
  BY DEF IInv, Typed, PrimaryInv, Hosts
<1>2. IsPrefix(db[Primary].log, db[Primary].log)
  BY <1>1, DatabaseIs, PrefixOfItself
<1>3. GrantsKept(db[Primary], db[Primary])
  BY <1>1, SameRows
<1>4. Follows(db[Primary], db[Primary])
  BY <1>1, <1>2, <1>3, KeptFollows
<1> QED BY <1>1, <1>2, <1>3, <1>4 DEF SameState, IInv, PrimaryInv

LEMMA CandidateSteps ==
    ASSUME IInv, NEW h \in Replicas, RegisterCandidate(h)
    PROVE  IInv' /\ Kept
<1>1. candidates' \subseteq Replicas /\ accepting' \in [Replicas -> 0..MaxGrants]
  BY DEF RegisterCandidate, IInv, Typed
<1> QED BY <1>1, PrimaryIs, WritesStep DEF RegisterCandidate

LEMMA CreateSteps ==
    ASSUME IInv, NEW h \in Replicas, CreateGrant(h)
    PROVE  IInv' /\ Kept
<1> DEFINE p   == db[Primary]
           row == [host |-> h, generation |-> Generation(p, h) + 1, accepted |-> FALSE,
                   revoked |-> FALSE, revokedAt |-> 0, enrolled |-> FALSE]
           rows == Append(p.grants, row)
           d   == [p EXCEPT !.grants = rows]
<1>1. p \in Database /\ RowsOK(p)
  BY PrimaryIs
<1>2. PrimaryWrites(d) /\ UNCHANGED <<mode, candidates, accepting, file, reply, elected>>
  BY DEF CreateGrant
<1>3. row \in Row
  BY <1>1, GenerationIs DEF Row
<1>4. /\ row.host = h /\ row.generation = Generation(p, h) + 1 /\ row.revokedAt = 0
      /\ ~row.enrolled
  OBVIOUS
<1> HIDE DEF row
<1>5. rows \in Seq(Row)
  BY <1>1, <1>3, DatabaseIs, AppendProperties
<1> HIDE DEF rows
<1>6. /\ d \in Database /\ SameState(p, d) /\ d.log = p.log /\ d.members = p.members
      /\ d.grants = rows
  BY <1>1, <1>5, GrantsReplaced
<1> HIDE DEF d
<1>8. RowsOK(d) /\ GrantsKept(p, d)
  BY <1>1, <1>3, <1>4, <1>6, RowAdded DEF rows
<1>7. candidates' \subseteq Replicas /\ accepting' \in [Replicas -> 0..MaxGrants]
      /\ accepting' = accepting
  BY <1>2 DEF IInv, Typed
<1> HIDE DEF p
<1> QED BY <1>2, <1>6, <1>7, <1>8, WritesStep DEF p

LEMMA AcceptSteps ==
    ASSUME IInv, NEW g \in Grants, AcceptGrant(g)
    PROVE  IInv' /\ Kept
<1> DEFINE p   == db[Primary]
           row == [p.grants[g] EXCEPT !.accepted = TRUE]
           rows == [p.grants EXCEPT ![g] = row]
           d   == [p EXCEPT !.grants = rows]
<1>1. p \in Database /\ RowsOK(p)
  BY PrimaryIs
<1>2. /\ g \in DOMAIN p.grants /\ PrimaryWrites(d)
      /\ UNCHANGED <<mode, candidates, file, reply, elected>>
      /\ accepting' = accepting \/ accepting' = [accepting EXCEPT ![p.grants[g].host] = g]
  BY DEF AcceptGrant, Accepted
<1>3. p.grants[g] \in Row
  BY <1>1, <1>2, DatabaseIs
<1>4. /\ row \in Row /\ row.host = p.grants[g].host /\ row.generation = p.grants[g].generation
      /\ row.revokedAt = p.grants[g].revokedAt /\ row.accepted
      /\ row.revoked = p.grants[g].revoked
  BY <1>3 DEF Row
<1>5. p.grants[g].revokedAt <= row.revokedAt
  BY <1>3, <1>4 DEF Row
<1> HIDE DEF row
<1>d. rows \in Seq(Row) /\ g \in DOMAIN p.grants
  BY <1>1, <1>2, <1>4, DatabaseIs, ExceptSeq
<1> HIDE DEF rows
<1>e. /\ d \in Database /\ SameState(p, d) /\ d.log = p.log /\ d.members = p.members
      /\ d.grants = rows
  BY <1>1, <1>d, GrantsReplaced
<1> HIDE DEF d, p
<1>6. RowsOK(d) /\ GrantsKept(p, d)
  BY <1>1, <1>d, <1>e, <1>4, <1>5, RowChanged DEF rows
<1>7. AcceptedIn(d, g, p.grants[g].host)
  BY <1>1, <1>2, <1>4, <1>e, DatabaseIs DEF AcceptedIn, GrantsOf, rows
<1>8. candidates' \subseteq Replicas /\ accepting' \in [Replicas -> 0..MaxGrants]
  <2>1. g \in 0..MaxGrants
    BY ReplicaAssumption DEF Grants
  <2> QED BY <1>2, <2>1 DEF IInv, Typed
<1>9. \A r \in Replicas : accepting'[r] \in {0, accepting[r]} \/ AcceptedIn(d, accepting'[r], r)
  BY <1>2, <1>7 DEF IInv, Typed
<1> QED BY <1>2, <1>e, <1>6, <1>8, <1>9, WritesStep DEF p

LEMMA RevokeSteps ==
    ASSUME IInv, NEW g \in Grants, RevokeGrant(g)
    PROVE  IInv' /\ Kept
<1> DEFINE p   == db[Primary]
           h   == p.grants[g].host
           row == [p.grants[g] EXCEPT !.revoked = TRUE, !.revokedAt = Generation(p, h) + 1]
           rows == [p.grants EXCEPT ![g] = row]
           d   == [p EXCEPT !.grants = rows]
<1>1. p \in Database /\ RowsOK(p)
  BY PrimaryIs
<1>2. /\ g \in DOMAIN p.grants
      /\ UNCHANGED <<mode, candidates, accepting, file, reply, elected>>
  BY DEF RevokeGrant
<1>3. PrimaryWrites(d)
  BY DEF RevokeGrant
<1>4. p.grants[g] \in Row
  BY <1>1, <1>2, DatabaseIs
<1>5. /\ Generation(p, h) \in Nat /\ g \in GrantsOf(p, h)
      /\ p.grants[g].revokedAt <= Generation(p, h)
  BY <1>1, <1>2, GenerationIs DEF GrantsOf
<1>6. /\ row \in Row /\ row.host = p.grants[g].host /\ row.generation = p.grants[g].generation
      /\ row.revokedAt = Generation(p, h) + 1 /\ row.accepted = p.grants[g].accepted
      /\ row.revoked /\ row.enrolled = p.grants[g].enrolled
  <2> DEFINE old == p.grants[g]
             at  == Generation(p, h) + 1
  <2>1. old \in Row /\ at \in Nat /\ row = [old EXCEPT !.revoked = TRUE, !.revokedAt = at]
    BY <1>4, <1>5
  <2> HIDE DEF old, at, row
  <2>2. /\ row \in Row /\ row.host = old.host /\ row.generation = old.generation
        /\ row.revokedAt = at /\ row.accepted = old.accepted
        /\ row.revoked /\ row.enrolled = old.enrolled
    BY <2>1 DEF Row
  <2> QED BY <2>2 DEF old, at
<1>7. p.grants[g].revokedAt <= row.revokedAt
  BY <1>4, <1>5, <1>6 DEF Row
<1>8. row.enrolled => row.accepted
  BY <1>1, <1>2, <1>6 DEF RowsOK
<1> HIDE DEF row
<1>d. rows \in Seq(Row) /\ g \in DOMAIN p.grants
  BY <1>1, <1>2, <1>6, DatabaseIs, ExceptSeq
<1> HIDE DEF rows
<1>e. /\ d \in Database /\ SameState(p, d) /\ d.log = p.log /\ d.members = p.members
      /\ d.grants = rows
  BY <1>1, <1>d, GrantsReplaced
<1> HIDE DEF d, p
<1>9. RowsOK(d) /\ GrantsKept(p, d)
  BY <1>1, <1>d, <1>e, <1>6, <1>7, <1>8, RowChanged DEF rows
<1>10. candidates' \subseteq Replicas /\ accepting' \in [Replicas -> 0..MaxGrants]
       /\ accepting' = accepting
  BY <1>2 DEF IInv, Typed
<1> QED BY <1>2, <1>3, <1>e, <1>9, <1>10, WritesStep DEF p

LEMMA RemoveSteps ==
    ASSUME IInv, NEW h \in Replicas, RemoveMember(h)
    PROVE  IInv' /\ Kept
<1> DEFINE p == db[Primary]
           d == [p EXCEPT !.members = p.members \ {h}]
<1>1. p \in Database /\ RowsOK(p)
  BY PrimaryIs
<1>2. PrimaryWrites(d) /\ UNCHANGED <<mode, candidates, accepting, file, reply, elected>>
  BY DEF RemoveMember
<1>3. /\ d \in Database /\ SameState(p, d) /\ d.log = p.log /\ d.grants = p.grants
      /\ d.members \subseteq p.members
  BY <1>1 DEF Database, SameState
<1> HIDE DEF d
<1>4. RowsOK(d) /\ GrantsKept(p, d)
  BY <1>1, <1>3, SameRows
<1>5. candidates' \subseteq Replicas /\ accepting' \in [Replicas -> 0..MaxGrants]
      /\ accepting' = accepting
  BY <1>2 DEF IInv, Typed
<1> HIDE DEF p
<1> QED BY <1>2, <1>3, <1>4, <1>5, WritesStep DEF p

\* A step that leaves the grants and the members alone.
LEMMA TurnStep ==
    ASSUME IInv, NEW q \in Database, db' = [db EXCEPT ![Primary] = q],
           q.grants = db[Primary].grants, q.members = db[Primary].members,
           IsPrefix(db[Primary].log, q.log), Len(q.log) <= MaxLog,
           q.enrollment = 0, \A r \in Replicas : q.writerState[r] = "none",
           elected = None => q.epoch = 0,
           UNCHANGED <<candidates, accepting, file, reply, elected, cut>>,
           mode' \in [Hosts -> Modes], \A r \in Replicas : mode'[r] = mode[r],
           mode'[Primary] = "writer" => elected = None
    PROVE  IInv' /\ Kept
<1>1. RowsOK(q) /\ Follows(db[Primary], q)
  BY PrimaryIs, SameRows, KeptFollows
<1>2. CutBy(q)
  BY DEF CutBy
<1>3. /\ candidates' \subseteq Replicas /\ accepting' \in [Replicas -> 0..MaxGrants]
      /\ file' \in [Replicas -> Sealed \cup {None}] /\ cut' \in [Grants -> Nat \cup {None}]
  BY DEF IInv, Typed
<1> QED BY <1>1, <1>2, <1>3, PrimaryStep

LEMMA PrimaryWriteSteps ==
    ASSUME IInv, Write(Primary)
    PROVE  IInv' /\ Kept
<1> DEFINE p == db[Primary]
           q == Logged(p, Primary)
<1>1. /\ mode[Primary] = "writer" /\ Len(p.log) < MaxLog /\ db' = [db EXCEPT ![Primary] = q]
      /\ UNCHANGED <<mode, candidates, accepting, file, reply, elected, cut>>
  BY DEF Write
<1>2. /\ q \in Database /\ SameState(p, q) /\ q.grants = p.grants /\ q.members = p.members
      /\ Len(q.log) = Len(p.log) + 1 /\ IsPrefix(p.log, q.log)
  BY PrimaryIs, LoggedIs
<1>3. /\ p.enrollment = 0 /\ \A r \in Replicas : p.writerState[r] = "none"
      /\ elected = None /\ p.epoch = 0
  BY <1>1 DEF IInv, PrimaryInv
<1>4. Len(q.log) <= MaxLog
  BY <1>1, <1>2, PrimaryIs, DatabaseIs, ReplicaAssumption
<1>5. mode' \in [Hosts -> Modes]
  BY <1>1 DEF IInv, Typed
<1> HIDE DEF q
<1> QED BY <1>1, <1>2, <1>3, <1>4, <1>5, TurnStep DEF SameState

\* The process of the primary changes, and its database does not.
LEMMA PrimaryProcessSteps ==
    ASSUME IInv, Resume(Primary) \/ Crash(Primary) \/ PrimaryBoot
    PROVE  IInv' /\ Kept
<1>1. UNCHANGED <<db, candidates, accepting, file, reply, elected, cut>>
  BY DEF Resume, Crash, PrimaryBoot
<1>2. /\ mode' \in [Hosts -> Modes] /\ \A r \in Replicas : mode'[r] = mode[r]
      /\ mode'[Primary] = "writer" => elected = None
  <2>1. mode \in [Hosts -> Modes] /\ Primary \in Hosts /\ \A r \in Replicas : r \in Hosts /\ r # Primary
    BY ReplicaAssumption DEF IInv, Typed, Hosts
  <2>2. elected \in {None, Primary} => elected = None
    BY ReplicaAssumption DEF IInv, Typed
  <2>3. mode[Primary] = "writer" => elected = None
    BY DEF IInv, PrimaryInv
  <2> QED BY <2>1, <2>2, <2>3 DEF Resume, Crash, PrimaryBoot, Boots, Modes
<1>3. db' = [db EXCEPT ![Primary] = db[Primary]]
  BY <1>1, PrimaryIs DEF IInv, Typed
<1>4. /\ db[Primary].enrollment = 0 /\ \A r \in Replicas : db[Primary].writerState[r] = "none"
      /\ elected = None => db[Primary].epoch = 0
  BY DEF IInv, PrimaryInv
<1> QED BY <1>1, <1>2, <1>3, <1>4, PrimaryIs, TurnStep

LEMMA EpochIs ==
    ASSUME NEW d \in Database, NEW epoch \in {0, 1}, NEW e, e = [d EXCEPT !.epoch = epoch]
    PROVE  /\ e \in Database /\ e.epoch = epoch /\ e.log = d.log /\ e.grants = d.grants
           /\ e.members = d.members /\ e.enrollment = d.enrollment /\ e.chain = d.chain
           /\ e.writerState = d.writerState
BY DatabaseOfRows

LEMMA WriterStateIs ==
    ASSUME NEW d \in Database, NEW states \in [Hosts -> {"none", "writer", "fenced"}], NEW e,
           e = [d EXCEPT !.writerState = states]
    PROVE  /\ e \in Database /\ e.epoch = d.epoch /\ e.log = d.log /\ e.grants = d.grants
           /\ e.members = d.members /\ e.enrollment = d.enrollment /\ e.chain = d.chain
           /\ e.writerState = states
BY DatabaseOfRows

LEMMA PrimaryFencedSteps ==
    ASSUME IInv, LosesQuorum(Primary) \/ ObserveHigherEpoch
    PROVE  IInv' /\ Kept
<1> DEFINE p == db[Primary]
<1>1. p \in Database /\ Primary \in Hosts /\ \A r \in Replicas : r \in Hosts /\ r # Primary
  BY PrimaryIs, ReplicaAssumption DEF Hosts
<1>2. UNCHANGED <<candidates, accepting, file, reply, elected, cut>>
  BY DEF LosesQuorum, ObserveHigherEpoch
<1>3. /\ mode' \in [Hosts -> Modes] /\ \A r \in Replicas : mode'[r] = mode[r]
      /\ mode'[Primary] = "halted"
  BY <1>1 DEF LosesQuorum, ObserveHigherEpoch, Modes, IInv, Typed
<1> DEFINE states == [p.writerState EXCEPT ![Primary] = "fenced"]
           higher == [p EXCEPT !.epoch = 1]
<1>a. /\ states \in [Hosts -> {"none", "writer", "fenced"}]
      /\ \A r \in Replicas : states[r] = p.writerState[r]
  BY <1>1, DatabaseOfRows
<1>b. /\ higher \in Database /\ higher.epoch = 1 /\ higher.log = p.log
      /\ higher.grants = p.grants /\ higher.members = p.members
      /\ higher.enrollment = p.enrollment /\ higher.writerState = p.writerState
  BY <1>1, EpochIs
<1>4. PICK d \in {p, higher} : /\ db' = [db EXCEPT ![Primary] = [d EXCEPT !.writerState = states]]
                               /\ elected = None => d = p
  <2>1. CASE LosesQuorum(Primary)
    BY <2>1 DEF LosesQuorum
  <2>2. CASE ObserveHigherEpoch
    <3> DEFINE dbs == [db EXCEPT ![Primary] = higher]
    <3>1. db' = [dbs EXCEPT ![Primary] = [dbs[Primary] EXCEPT
                     !.writerState = [dbs[Primary].writerState EXCEPT ![Primary] = "fenced"]]]
      BY <2>2 DEF ObserveHigherEpoch
    <3> HIDE DEF higher
    <3>2. dbs[Primary] = higher /\ db \in [Hosts -> Database \cup {None}]
      BY <1>1 DEF IInv, Typed
    <3>3. db' = [dbs EXCEPT ![Primary] = [higher EXCEPT !.writerState = states]]
      BY <1>b, <3>1, <3>2
    <3>4. \A e : [dbs EXCEPT ![Primary] = e] = [db EXCEPT ![Primary] = e]
      BY <3>2
    <3> HIDE DEF dbs
    <3> QED BY <2>2, <3>3, <3>4 DEF ObserveHigherEpoch
  <2> QED BY <2>1, <2>2
<1> DEFINE e == [d EXCEPT !.writerState = states]
<1> HIDE DEF states, higher
<1>6. db' = [db EXCEPT ![Primary] = e] /\ e = [d EXCEPT !.writerState = states] /\ d \in Database
  BY <1>1, <1>b, <1>4
<1> HIDE DEF e, p
<1>5. /\ e \in Database /\ e.epoch = d.epoch /\ e.log = d.log /\ e.grants = d.grants
      /\ e.members = d.members /\ e.enrollment = d.enrollment /\ e.writerState = states
  BY <1>6, <1>a, WriterStateIs
<1>c. /\ e.log = p.log /\ e.grants = p.grants /\ e.members = p.members
      /\ e.enrollment = p.enrollment /\ (elected = None => e.epoch = 0)
  BY <1>b, <1>4, <1>5 DEF IInv, PrimaryInv, p
<1>7. e.enrollment = 0 /\ \A r \in Replicas : e.writerState[r] = "none"
  BY <1>a, <1>5, <1>c DEF IInv, PrimaryInv, p
<1>8. IsPrefix(p.log, e.log) /\ Len(e.log) <= MaxLog
  BY <1>c, PrimaryIs DEF p
<1> QED BY <1>2, <1>3, <1>5, <1>6, <1>7, <1>8, <1>c, TurnStep DEF p

\* The sealed copy is of a grant that was active, and never cut off before.
LEMMA EnrollSteps ==
    ASSUME IInv, NEW h \in Replicas, Enroll(h)
    PROVE  IInv' /\ Kept
<1> DEFINE p == db[Primary]
           g == accepting[h]
           row  == [p.grants[g] EXCEPT !.enrolled = TRUE]
           rows == [p.grants EXCEPT ![g] = row]
           q    == [p EXCEPT !.grants = rows]
<1>1. p \in Database /\ RowsOK(p) /\ g # 0 /\ g \in 0..MaxGrants
  BY PrimaryIs DEF Enroll, IInv, Typed
<1>2. /\ accepting' = [accepting EXCEPT ![h] = 0]
      /\ UNCHANGED <<mode, candidates, reply, elected, cut>>
  BY DEF Enroll
<1>3. /\ accepting' \in [Replicas -> 0..MaxGrants] /\ candidates' \subseteq Replicas
      /\ \A r \in Replicas : accepting'[r] \in {0, accepting[r]}
      /\ mode' \in [Hosts -> Modes] /\ cut' \in [Grants -> Nat \cup {None}]
      /\ mode'[Primary] = "writer" => elected = None
  BY <1>2, ReplicaAssumption DEF IInv, Typed, PrimaryInv
<1>4. /\ p.enrollment = 0 /\ \A r \in Replicas : p.writerState[r] = "none"
      /\ elected = None => p.epoch = 0
  BY DEF IInv, PrimaryInv
<1>5. CASE UNCHANGED <<db, file>>
  <2>1. db' = [db EXCEPT ![Primary] = p] /\ CutBy(p) /\ file' \in [Replicas -> Sealed \cup {None}]
    BY <1>2, <1>5, PrimaryIs DEF IInv, Typed, CutBy
  <2> QED BY <1>2, <1>3, <1>4, <1>5, <2>1, PrimaryIs, PrimaryStep
<1>6. CASE /\ mode[Primary] = "writer" /\ Active(p, g)
           /\ db' = [db EXCEPT ![Primary] = q]
           /\ file' = file \/ file' = [file EXCEPT ![h] = [grant |-> g, snapshot |-> p]]
  <2>1. g \in DOMAIN p.grants /\ p.grants[g] \in Row /\ p.grants[g].accepted
    BY <1>1, <1>6, DatabaseIs DEF Active
  <2>2. /\ row \in Row /\ row.host = p.grants[g].host /\ row.generation = p.grants[g].generation
        /\ row.revokedAt = p.grants[g].revokedAt /\ row.accepted = p.grants[g].accepted
        /\ row.revoked = p.grants[g].revoked
    BY <2>1 DEF Row
  <2>3. p.grants[g].revokedAt <= row.revokedAt
    BY <2>1, <2>2 DEF Row
  <2> HIDE DEF row
  <2>4. rows \in Seq(Row)
    BY <1>1, <2>1, <2>2, DatabaseIs, ExceptSeq
  <2> HIDE DEF rows
  <2>5. /\ q \in Database /\ SameState(p, q) /\ q.log = p.log /\ q.members = p.members
        /\ q.grants = rows
    BY <1>1, <2>4, GrantsReplaced
  <2>6. db' = [db EXCEPT ![Primary] = q]
    BY <1>6
  <2>7. file' = file \/ file' = [file EXCEPT ![h] = [grant |-> g, snapshot |-> p]]
    BY <1>6
  <2> HIDE DEF q
  <2>8. RowsOK(q) /\ GrantsKept(p, q)
    BY <1>1, <2>1, <2>2, <2>3, <2>5, RowChanged DEF rows
  <2>9. Follows(p, q)
    BY <1>1, <2>5, <2>8, PrimaryIs, KeptFollows
  <2>10. elected = None /\ cut[g] = None /\ g \in Grants
    BY <1>1, <1>6 DEF IInv, PrimaryInv, Grants
  <2>11. AcceptedIn(p, g, h) /\ AcceptedIn(q, g, h)
    BY <1>1, <2>9 DEF IInv, ReplicaInv, CopiesInv, Follows, AcceptedIn
  <2>12. SnapshotOf(q, p) /\ By(q, cut'[g], h, g, p)
    BY <1>1, <1>2, <1>4, <2>5, <2>10, <2>11, PrimaryIs DEF SnapshotOf, By
  <2>13. file' \in [Replicas -> Sealed \cup {None}]
    BY <1>1, <2>7, <2>10 DEF IInv, Typed, Sealed
  <2>14. \A r \in Replicas : file'[r] # None =>
             \/ file'[r] = file[r]
             \/ /\ SnapshotOf(q, file'[r].snapshot)
                /\ By(q, cut'[file'[r].grant], r, file'[r].grant, file'[r].snapshot)
    BY <2>7, <2>12 DEF IInv, Typed
  <2>15. CutBy(q) /\ q.enrollment = 0 /\ (\A r \in Replicas : q.writerState[r] = "none")
         /\ (elected = None => q.epoch = 0) /\ Len(q.log) <= MaxLog
    BY <1>2, <1>4, <2>5, PrimaryIs DEF CutBy, SameState
  <2> QED BY <1>2, <1>3, <2>5, <2>6, <2>8, <2>9, <2>13, <2>14, <2>15, PrimaryStep
<1> QED BY <1>5, <1>6 DEF Enroll

(***************************************************************************)
(* Steps of a replica.                                                     *)
(***************************************************************************)
LEMMA ReplicaStep ==
    ASSUME IInv, NEW h \in Replicas, ReplicaInv(h)',
           NEW e \in Database \cup {None}, NEW m \in Modes, NEW now \in InHand,
           db' = [db EXCEPT ![h] = e], mode' = [mode EXCEPT ![h] = m],
           reply' = [reply EXCEPT ![h] = now],
           UNCHANGED <<candidates, accepting, file, cut>>,
           elected' = elected \/ (elected = None /\ elected' = h /\ mode[Primary] # "writer"),
           db[h] # None => Grown(db[h], e), Denial(h) => Denial(h)'
    PROVE  IInv' /\ Kept
<1>1. /\ Primary \in Hosts /\ h \in Hosts /\ h # Primary /\ h # None
      /\ \A r \in Replicas : r \in Hosts /\ r # Primary
  BY ReplicaAssumption DEF Hosts
<1>2. /\ db'[Primary] = db[Primary] /\ mode'[Primary] = mode[Primary]
      /\ \A r \in Replicas \ {h} : db'[r] = db[r] /\ mode'[r] = mode[r] /\ reply'[r] = reply[r]
  BY <1>1 DEF IInv, Typed
<1>3. Typed'
  BY <1>1, <1>2 DEF IInv, Typed
<1>4. PrimaryInv'
  BY <1>1, <1>2 DEF IInv, PrimaryInv
<1>5. CutBy(db'[Primary])
  BY DEF CutBy
<1>6. ASSUME NEW r \in Replicas \ {h} PROVE ReplicaInv(r)'
  BY <1>2, <1>5, PrimaryIs, Bystander DEF IInv, Typed
<1>7. Kept
  <2>1. \A r \in Hosts : db[r] # None => Grown(db[r], db[r])
    BY ItselfGrown DEF IInv, Typed
  <2>2. \A r \in Hosts : r # h => db'[r] = db[r]
    BY DEF IInv, Typed
  <2>3. db'[h] = e
    BY <1>1 DEF IInv, Typed
  <2>4. ASSUME NEW r \in Replicas \ {h}, Denial(r) PROVE Denial(r)'
    BY <1>2, <2>4 DEF Denial
  <2> QED BY <2>1, <2>2, <2>3, <2>4 DEF Kept, Grown, Hosts
<1> QED BY <1>3, <1>4, <1>6, <1>7 DEF IInv

\* What a replica and the primary have, from the invariant.
LEMMA ReplicaIs ==
    ASSUME IInv, NEW h \in Replicas
    PROVE  /\ Typed /\ PrimaryInv /\ ProcessInv(h) /\ DatabaseInv(h) /\ CopiesInv(h) /\ DenialInv(h)
           /\ h \in Hosts /\ h # Primary /\ h # None
           /\ db[h] \in Database \cup {None} /\ mode[h] \in Modes /\ reply[h] \in InHand
           /\ db = [db EXCEPT ![h] = db[h]] /\ mode = [mode EXCEPT ![h] = mode[h]]
           /\ reply = [reply EXCEPT ![h] = reply[h]]
           /\ db[h] # None => Grown(db[h], db[h])
BY ItselfGrown, ReplicaAssumption DEF IInv, ReplicaInv, Hosts, Typed

LEMMA HandIs ==
    /\ NoReply \in InHand /\ Reply("pong") \in InHand /\ Reply("denied") \in InHand
    /\ NoReply.is = "none" /\ Reply("pong").is = "pong" /\ Reply("denied").is = "denied"
    /\ \A d \in Database : Snapshot(d) \in InHand /\ Snapshot(d).is = "copy" /\ Snapshot(d).of = d
BY DEF InHand, NoReply, Reply, Snapshot

\* The grants and the op_log are what a copy is judged by.
LEMMA SameBy ==
    ASSUME NEW p, NEW limit, NEW h, NEW g, NEW c, NEW e, By(p, limit, h, g, c),
           e.log = c.log, e.grants = c.grants
    PROVE  By(p, limit, h, g, e)
BY DEF By, AcceptedIn, GrantsOf

LEMMA InstallSteps ==
    ASSUME IInv, NEW h \in Replicas, Install(h)
    PROVE  IInv' /\ Kept
<1> DEFINE c == file[h].snapshot
           g == file[h].grant
           now == [is |-> "enrollment", of |-> g]
<1>1. /\ file[h] # None /\ db[h] = None /\ db' = [db EXCEPT ![h] = c]
      /\ mode' = [mode EXCEPT ![h] = "installing"] /\ reply' = [reply EXCEPT ![h] = now]
      /\ UNCHANGED <<candidates, accepting, file, elected, cut>>
  BY DEF Install, Forked
<1>2. c \in Database /\ c # None /\ g \in Grants
  BY <1>1, HandTyped, NoneAssumption DEF IInv
<1>3. now \in InHand /\ now.is = "enrollment" /\ now.of = g /\ "installing" \in Modes
  BY <1>2 DEF InHand, Modes
<1> HIDE DEF now
<1>4. SnapshotOf(db[Primary], c) /\ By(db[Primary], cut[g], h, g, c) /\ elected # h
  BY <1>1, ReplicaIs DEF CopiesInv, DatabaseInv
<1> HIDE DEF c
<1>5. db'[h] = c /\ mode'[h] = "installing" /\ reply'[h] = now /\ db'[Primary] = db[Primary]
  BY <1>1, ReplicaIs DEF Typed
<1>6. ProcessInv(h)'
  BY <1>2, <1>3, <1>5 DEF ProcessInv
<1>7. DatabaseInv(h)'
  BY <1>1, <1>3, <1>4, <1>5 DEF DatabaseInv, SnapshotOf
<1>8. CopiesInv(h)'
  BY <1>1, <1>3, <1>4, <1>5, ReplicaIs DEF CopiesInv, c
<1>9. DenialInv(h)'
  BY <1>3, <1>5 DEF DenialInv
<1> QED BY <1>1, <1>2, <1>3, <1>6, <1>7, <1>8, <1>9, ReplicaStep DEF ReplicaInv, Denial

LEMMA EnrollmentIs ==
    ASSUME NEW d \in Database, NEW g \in Grants, NEW e, e = [d EXCEPT !.enrollment = g]
    PROVE  /\ e \in Database /\ e.epoch = d.epoch /\ e.log = d.log /\ e.grants = d.grants
           /\ e.members = d.members /\ e.enrollment = g /\ e.chain = d.chain
           /\ e.writerState = d.writerState /\ g # 0
<1>1. g \in 0..MaxGrants /\ g # 0
  BY ReplicaAssumption DEF Grants
<1> QED BY <1>1, DatabaseOfRows

LEMMA ChainIs ==
    ASSUME NEW d \in Database, NEW n \in 0..MaxChain, NEW e, e = [d EXCEPT !.chain = n]
    PROVE  /\ e \in Database /\ e.epoch = d.epoch /\ e.log = d.log /\ e.grants = d.grants
           /\ e.members = d.members /\ e.enrollment = d.enrollment /\ e.chain = n
           /\ e.writerState = d.writerState
BY DatabaseOfRows

LEMMA BootsIs ==
    ASSUME NEW d, NEW h \in Replicas
    PROVE  /\ Boots(d, h) \in {"resuming", "replica"}
           /\ Boots(d, h) = "resuming" => d.writerState[h] = "writer"
BY ReplicaAssumption DEF Boots, WriterStateOf

LEMMA StampSteps ==
    ASSUME IInv, NEW h \in Replicas, Stamp(h)
    PROVE  IInv' /\ Kept
<1> DEFINE d == db[h]
           g == reply[h].of
           e == [d EXCEPT !.enrollment = g]
           m == Boots(d, h)
<1>1. /\ mode[h] = "installing" /\ db' = [db EXCEPT ![h] = e]
      /\ mode' = [mode EXCEPT ![h] = m] /\ reply' = [reply EXCEPT ![h] = NoReply]
      /\ UNCHANGED <<candidates, accepting, file, elected, cut>>
  BY DEF Stamp
<1>2. d \in Database /\ d # None /\ reply[h].is = "enrollment" /\ g \in Grants
  BY <1>1, HandTyped, ReplicaIs DEF ProcessInv
<1>3. /\ e \in Database /\ e.epoch = d.epoch /\ e.log = d.log /\ e.grants = d.grants
      /\ e.members = d.members /\ e.enrollment = g /\ g # 0 /\ e.writerState = d.writerState
      /\ e.chain = d.chain
  BY <1>2, EnrollmentIs
<1> HIDE DEF e
<1>4. /\ m \in {"resuming", "replica"} /\ (m = "resuming" => elected = h)
  BY <1>2, BootsIs, ReplicaIs DEF DatabaseInv
<1> HIDE DEF m
<1>5. By(db[Primary], cut[g], h, g, e)
  BY <1>1, <1>3, ReplicaIs, SameBy DEF CopiesInv
<1>6. /\ db'[h] = e /\ mode'[h] = m /\ reply'[h] = NoReply /\ db'[Primary] = db[Primary]
      /\ e # None /\ m \in Modes
  BY <1>1, <1>3, <1>4, ReplicaIs, NoneAssumption DEF Typed, Modes
<1>7. RowsOK(e)
  BY <1>2, <1>3, SameRows, ReplicaIs DEF DatabaseInv
<1>8. ProcessInv(h)'
  BY <1>1, <1>3, <1>4, <1>6, HandIs DEF ProcessInv
<1>9. DatabaseInv(h)'
  BY <1>1, <1>2, <1>3, <1>5, <1>6, <1>7, HandIs, ReplicaIs DEF DatabaseInv
<1>10. CopiesInv(h)'
  BY <1>1, <1>4, <1>6, HandIs, ReplicaIs DEF CopiesInv
<1>11. DenialInv(h)'
  BY <1>4, <1>6, HandIs DEF DenialInv
<1>12. Grown(d, e)
  BY <1>2, <1>3, SameGrown
<1> QED BY <1>1, <1>3, <1>6, <1>8, <1>9, <1>10, <1>11, <1>12, HandIs, ReplicaStep DEF ReplicaInv, Denial

LEMMA BootSteps ==
    ASSUME IInv, NEW h \in Replicas, Boot(h)
    PROVE  IInv' /\ Kept
<1> DEFINE m == Boots(db[h], h)
<1>1. /\ mode[h] = "off" /\ db[h] # None /\ file[h] # None /\ db[h].enrollment = file[h].grant
      /\ mode' = [mode EXCEPT ![h] = m]
      /\ UNCHANGED <<db, reply, candidates, accepting, file, elected, cut>>
  BY DEF Boot, Forked
<1>2. m \in {"resuming", "replica"} /\ (m = "resuming" => elected = h)
  BY <1>1, BootsIs, ReplicaIs DEF DatabaseInv
<1> HIDE DEF m
<1>3. mode'[h] = m /\ m \in Modes /\ db[h].enrollment # 0
  BY <1>1, <1>2, ReplicaIs, HandTyped, ReplicaAssumption DEF Typed, Modes, Grants
<1>4. ProcessInv(h)'
  BY <1>1, <1>2, <1>3, ReplicaIs DEF ProcessInv
<1>5. DatabaseInv(h)' /\ CopiesInv(h)' /\ DenialInv(h)'
  BY <1>1, <1>2, <1>3, ReplicaIs DEF DatabaseInv, CopiesInv, DenialInv
<1>6. /\ db' = [db EXCEPT ![h] = db[h]] /\ reply' = [reply EXCEPT ![h] = reply[h]]
      /\ db[h] \in Database \cup {None} /\ reply[h] \in InHand
      /\ db[h] # None => Grown(db[h], db[h])
  BY <1>1, ReplicaIs
<1>7. Denial(h) => Denial(h)'
  BY <1>1, <1>2, <1>3 DEF Denial
<1> QED BY <1>1, <1>3, <1>4, <1>5, <1>6, <1>7, ReplicaStep DEF ReplicaInv

LEMMA CommitSteps ==
    ASSUME IInv, NEW h \in Replicas, CommitRecord(h)
    PROVE  IInv' /\ Kept
<1> DEFINE d == db[h]
           n == d.chain + 1
           e == [d EXCEPT !.chain = n]
<1>1. /\ mode[h] \in {"replica", "resuming", "writer", "halted"} /\ db' = [db EXCEPT ![h] = e]
      /\ d.chain < MaxChain
      /\ UNCHANGED <<mode, candidates, accepting, file, reply, elected, cut>>
  BY DEF CommitRecord
<1>2. d \in Database /\ d # None
  BY <1>1, HandTyped, ReplicaIs DEF ProcessInv
<1>3. n \in 0..MaxChain
  BY <1>1, <1>2, DatabaseOfRows, ReplicaAssumption
<1> HIDE DEF n
<1>4. /\ e \in Database /\ e.epoch = d.epoch /\ e.log = d.log /\ e.grants = d.grants
      /\ e.members = d.members /\ e.enrollment = d.enrollment /\ e.writerState = d.writerState
      /\ e.chain = n
  BY <1>2, <1>3, ChainIs
<1> HIDE DEF e
<1>5. db'[h] = e /\ db'[Primary] = db[Primary] /\ e # None
  BY <1>1, <1>4, ReplicaIs, NoneAssumption DEF Typed
<1>6. RowsOK(e)
  BY <1>2, <1>4, SameRows, ReplicaIs DEF DatabaseInv
<1>7. ProcessInv(h)'
  BY <1>1, <1>2, <1>4, <1>5, ReplicaIs DEF ProcessInv
<1>8. DatabaseInv(h)'
  <2>1. d.enrollment # 0 => By(db[Primary], cut[d.enrollment], h, d.enrollment, e)
    BY <1>2, <1>4, SameBy, ReplicaIs DEF DatabaseInv
  <2> QED BY <1>1, <1>2, <1>4, <1>5, <1>6, <2>1, ReplicaIs DEF DatabaseInv
<1>9. CopiesInv(h)'
  BY <1>1, <1>4, <1>5, ReplicaIs DEF CopiesInv
<1>10. DenialInv(h)'
  BY <1>1, <1>4, <1>5, ReplicaIs DEF DenialInv, Denial
<1>11. /\ mode' = [mode EXCEPT ![h] = mode[h]] /\ reply' = [reply EXCEPT ![h] = reply[h]]
       /\ mode[h] \in Modes /\ reply[h] \in InHand
  BY <1>1, ReplicaIs
<1>12. Grown(d, e)
  <2>1. n >= d.chain
    BY <1>2, DatabaseOfRows, ReplicaAssumption DEF n
  <2> QED BY <1>2, <1>4, <1>5, <2>1, DatabaseIs, PrefixOfItself DEF Grown
<1>13. Denial(h) => Denial(h)'
  BY <1>1, <1>4, <1>5 DEF Denial
<1> QED
  BY <1>1, <1>4, <1>7, <1>8, <1>9, <1>10, <1>11, <1>12, <1>13, ReplicaStep DEF ReplicaInv

\* An answer of the primary, or none.
LEMMA AnsweredStep ==
    ASSUME IInv, NEW h \in Replicas, NEW now \in InHand, Answered(h, now), mode[h] = "replica",
           now.is # "enrollment",
           now.is = "denied" => ~Active(db[Primary], db[h].enrollment),
           now.is = "copy" =>
               /\ Active(db[Primary], db[h].enrollment)
               /\ elected # h /\ SnapshotOf(db[Primary], now.of)
               /\ By(db[Primary], cut[db[h].enrollment], h, db[h].enrollment, now.of)
    PROVE  IInv' /\ Kept
<1>1. /\ reply' = [reply EXCEPT ![h] = now] /\ reply'[h] = now
      /\ UNCHANGED <<db, mode, candidates, accepting, file, elected, cut>>
  BY ReplicaIs DEF Answered, Typed
<1>2. ProcessInv(h)' /\ DatabaseInv(h)' /\ CopiesInv(h)' /\ DenialInv(h)'
  BY <1>1, ReplicaIs DEF ProcessInv, DatabaseInv, CopiesInv, DenialInv
<1>3. /\ db' = [db EXCEPT ![h] = db[h]] /\ mode' = [mode EXCEPT ![h] = mode[h]]
      /\ db[h] \in Database \cup {None} /\ mode[h] \in Modes
      /\ db[h] # None => Grown(db[h], db[h])
  BY <1>1, ReplicaIs
<1>4. Denial(h) => Denial(h)'
  BY <1>1 DEF Denial
<1> QED BY <1>1, <1>2, <1>3, <1>4, ReplicaStep DEF ReplicaInv

\* A primary that writes is of epoch 0, and nobody has been elected: what it serves is a copy
\* for a grant that was never cut off.
LEMMA AnswerSteps ==
    ASSUME IInv, NEW h \in Replicas, PingServed(h) \/ SnapshotServed(h) \/ SnapshotFails(h)
    PROVE  IInv' /\ Kept
<1> DEFINE p == db[Primary]
           g == db[h].enrollment
<1>1. mode[h] = "replica"
  BY ReplicaIs DEF PingServed, SnapshotServed, SnapshotFails, ProcessInv
<1>2. ASSUME Active(p, g), mode[Primary] = "writer", Answered(h, Snapshot(p))
      PROVE  IInv' /\ Kept
  <2>1. /\ elected = None /\ p.epoch = 0 /\ p.enrollment = 0
        /\ \A r \in Replicas : p.writerState[r] = "none"
    BY <1>2 DEF IInv, PrimaryInv
  <2>2. db[h] # None /\ g # 0 /\ g \in Grants
    BY <1>1, ReplicaIs, HandTyped DEF ProcessInv
  <2>3. AcceptedIn(p, g, h) /\ cut[g] = None
    BY <1>2, <2>2, ReplicaIs DEF DatabaseInv, By, PrimaryInv
  <2>4. SnapshotOf(p, p) /\ By(p, cut[g], h, g, p)
    BY <2>1, <2>3, PrimaryIs DEF SnapshotOf, By
  <2> QED BY <1>1, <1>2, <2>1, <2>4, HandIs, PrimaryIs, ReplicaIs, AnsweredStep
<1>3. ASSUME Answered(h, NoReply) \/ Answered(h, Reply("pong"))
             \/ (Answered(h, Reply("denied")) /\ ~Active(p, g))
      PROVE  IInv' /\ Kept
  BY <1>1, <1>3, HandIs, AnsweredStep
<1> QED BY <1>2, <1>3 DEF PingServed, SnapshotServed, SnapshotFails

LEMMA CopyIs ==
    ASSUME NEW c \in Database, NEW own \in Database, NEW e, e = Copy(c, own)
    PROVE  /\ e \in Database /\ e.epoch = c.epoch /\ e.log = c.log /\ e.grants = c.grants
           /\ e.members = c.members /\ e.writerState = c.writerState
           /\ e.enrollment = own.enrollment /\ e.chain = own.chain
<1> DEFINE named == [c EXCEPT !.enrollment = own.enrollment]
<1>1. /\ named \in Database /\ named.epoch = c.epoch /\ named.log = c.log
      /\ named.grants = c.grants /\ named.members = c.members
      /\ named.writerState = c.writerState /\ named.enrollment = own.enrollment
  BY DatabaseOfRows
<1>2. e = [named EXCEPT !.chain = own.chain] /\ own.chain \in 0..MaxChain
  BY DatabaseOfRows DEF Copy
<1> HIDE DEF named
<1> QED BY <1>1, <1>2, ChainIs

LEMMA ApplySteps ==
    ASSUME IInv, NEW h \in Replicas, ApplySnapshot(h)
    PROVE  IInv' /\ Kept
<1> DEFINE d == db[h]
           c == reply[h].of
           e == Replaced(c, d)
<1>1. /\ reply[h].is = "copy" /\ reply' = [reply EXCEPT ![h] = NoReply]
      /\ db' = [db EXCEPT ![h] = e]
      /\ UNCHANGED <<mode, candidates, accepting, file, elected, cut>>
  BY DEF ApplySnapshot
<1>2. /\ mode[h] = "replica" /\ d # None /\ d \in Database /\ c \in Database /\ d.enrollment # 0
      /\ elected # h
  BY <1>1, ReplicaIs, HandTyped DEF ProcessInv, DatabaseInv
<1>3. /\ SnapshotOf(db[Primary], c) /\ By(db[Primary], cut[d.enrollment], h, d.enrollment, c)
  BY <1>1, ReplicaIs DEF CopiesInv
<1>4. /\ RowsOK(d) /\ d.epoch = 0 /\ IsPrefix(d.log, db[Primary].log)
      /\ d.writerState[h] # "writer"
      /\ By(db[Primary], cut[d.enrollment], h, d.enrollment, d)
  BY <1>2, ReplicaIs DEF DatabaseInv
<1>5. /\ e \in Database /\ RowsOK(e) /\ e.epoch = 0 /\ IsPrefix(e.log, db[Primary].log)
      /\ e.writerState[h] # "writer" /\ e.enrollment = d.enrollment
      /\ By(db[Primary], cut[d.enrollment], h, d.enrollment, e) /\ Grown(d, e)
  <2>1. CASE e = d
    BY <1>2, <1>4, <2>1, ItselfGrown
  <2>2. CASE e = Copy(c, d) /\ Len(c.log) >= Len(d.log)
    <3>1. /\ e \in Database /\ e.epoch = c.epoch /\ e.log = c.log /\ e.grants = c.grants
          /\ e.writerState = c.writerState /\ e.enrollment = d.enrollment
          /\ e.chain = d.chain /\ Len(c.log) >= Len(d.log)
      BY <1>2, <2>2, CopyIs
    <3> HIDE DEF e, c, d
    <3>2. RowsOK(e)
      BY <1>2, <1>3, <3>1, SameRows DEF SnapshotOf
    <3>3. By(db[Primary], cut[d.enrollment], h, d.enrollment, e)
      BY <1>3, <3>1, SameBy
    <3>4. IsPrefix(d.log, c.log)
      BY <1>2, <1>3, <1>4, <3>1, DatabaseIs, PrimaryIs, PrefixesOfOne DEF SnapshotOf
    <3>5. Grown(d, e)
      BY <1>2, <3>1, <3>4, DatabaseOfRows, ReplicaAssumption, NoneAssumption DEF Grown
    <3> QED BY <1>3, <3>1, <3>2, <3>3, <3>5 DEF SnapshotOf
  <2> QED BY <2>1, <2>2 DEF Replaced, Replaces
<1> HIDE DEF e
<1>6. /\ db'[h] = e /\ reply'[h] = NoReply /\ db'[Primary] = db[Primary] /\ e # None
      /\ mode' = [mode EXCEPT ![h] = "replica"] /\ "replica" \in Modes
  BY <1>1, <1>2, <1>5, ReplicaIs, NoneAssumption DEF Typed, Modes
<1>7. ProcessInv(h)'
  BY <1>1, <1>2, <1>5, <1>6, HandIs DEF ProcessInv
<1>8. DatabaseInv(h)'
  BY <1>1, <1>2, <1>5, <1>6, HandIs DEF DatabaseInv
<1>9. CopiesInv(h)' /\ DenialInv(h)'
  BY <1>1, <1>2, <1>6, HandIs, ReplicaIs DEF CopiesInv, DenialInv
<1> QED BY <1>1, <1>5, <1>6, <1>7, <1>8, <1>9, HandIs, ReplicaStep DEF ReplicaInv, Denial

LEMMA DeniedSteps ==
    ASSUME IInv, NEW h \in Replicas, Denied(h)
    PROVE  IInv' /\ Kept
<1> DEFINE d == db[h]
           g == d.enrollment
           row  == [d.grants[g] EXCEPT !.revoked = TRUE]
           rows == [d.grants EXCEPT ![g] = row]
           e    == [d EXCEPT !.grants = rows]
<1>1. /\ reply[h].is = "denied" /\ reply' = [reply EXCEPT ![h] = NoReply]
      /\ mode' = [mode EXCEPT ![h] = "halted"]
      /\ db' = [db EXCEPT ![h] = e]
      /\ UNCHANGED <<candidates, accepting, file, elected, cut>>
  BY DEF Denied
<1>2. /\ mode[h] = "replica" /\ d # None /\ d \in Database /\ g # 0
      /\ ~Active(db[Primary], g)
  BY <1>1, ReplicaIs, HandTyped DEF ProcessInv, DenialInv
<1>3. /\ RowsOK(d) /\ By(db[Primary], cut[g], h, g, d)
      /\ d.writerState[h] = "writer" => elected = h
  BY <1>2, ReplicaIs DEF DatabaseInv
<1>4. g \in DOMAIN d.grants /\ d.grants[g] \in Row /\ d.grants[g].host = h /\ d.grants[g].accepted
  BY <1>2, <1>3, DatabaseIs DEF By, AcceptedIn, GrantsOf
<1>5. /\ row \in Row /\ row.host = h /\ row.generation = d.grants[g].generation
      /\ row.revokedAt = d.grants[g].revokedAt /\ row.accepted /\ row.revoked
  BY <1>4 DEF Row
<1>6. d.grants[g].revokedAt <= row.revokedAt
  BY <1>4, <1>5 DEF Row
<1> HIDE DEF row
<1>7. rows \in Seq(Row) /\ rows[g] = row /\ DOMAIN rows = DOMAIN d.grants
  BY <1>2, <1>4, <1>5, DatabaseIs, ExceptSeq
<1> HIDE DEF rows
<1>8. /\ e \in Database /\ SameState(d, e) /\ e.log = d.log /\ e.members = d.members
      /\ e.grants = rows
  BY <1>2, <1>7, GrantsReplaced
<1> HIDE DEF e
<1>9. RowsOK(e)
  BY <1>2, <1>3, <1>4, <1>5, <1>6, <1>8, RowChanged DEF rows
<1>10. By(db[Primary], cut[g], h, g, e)
  BY <1>3, <1>4, <1>5, <1>7, <1>8 DEF By, AcceptedIn, GrantsOf
<1>11. /\ db'[h] = e /\ mode'[h] = "halted" /\ reply'[h] = NoReply /\ db'[Primary] = db[Primary]
       /\ e # None /\ "halted" \in Modes /\ e.enrollment = g /\ e.grants[g].revoked
       /\ e.writerState = d.writerState /\ e.epoch = d.epoch
  BY <1>1, <1>5, <1>7, <1>8, ReplicaIs, NoneAssumption DEF Typed, Modes, SameState
<1>12. ProcessInv(h)'
  BY <1>1, <1>2, <1>11, HandIs DEF ProcessInv
<1>13. DatabaseInv(h)'
  BY <1>1, <1>2, <1>3, <1>8, <1>9, <1>10, <1>11, HandIs, ReplicaIs DEF DatabaseInv
<1>14. CopiesInv(h)'
  BY <1>1, <1>11, HandIs, ReplicaIs DEF CopiesInv
<1>15. DenialInv(h)'
  BY <1>1, <1>2, <1>11, HandIs DEF DenialInv, Denial
<1>16. Grown(d, e)
  BY <1>2, <1>8, SameGrown DEF SameState
<1>17. Denial(h) => Denial(h)'
  BY <1>1, <1>2, <1>11, HandIs DEF Denial
<1> QED
  BY <1>1, <1>8, <1>11, <1>12, <1>13, <1>14, <1>15, <1>16, <1>17, HandIs, ReplicaStep
     DEF ReplicaInv

\* An entry of its own is none of the primary's.
LEMMA LoggedBy ==
    ASSUME NEW p, NEW limit, NEW h \in Replicas, NEW g, NEW c \in Database, By(p, limit, h, g, c),
           NEW e, e.log = Append(c.log, h), e.grants = c.grants
    PROVE  By(p, limit, h, g, e)
<1>1. c.log \in Seq(Hosts) /\ h \in Hosts /\ h # Primary
  BY DatabaseIs, ReplicaAssumption DEF Hosts
<1>2. /\ Len(e.log) = Len(c.log) + 1 /\ e.log[Len(c.log) + 1] = h
      /\ \A i \in 1..Len(c.log) : e.log[i] = c.log[i]
      /\ Len(c.log) \in Nat /\ DOMAIN c.log = 1..Len(c.log)
      /\ DOMAIN e.log = 1..(Len(c.log) + 1)
  BY <1>1, AppendProperties, LenProperties
<1>3. \A i \in DOMAIN e.log : e.log[i] = Primary => i \in DOMAIN c.log /\ c.log[i] = Primary
  <2> SUFFICES ASSUME NEW i \in 1..(Len(c.log) + 1), e.log[i] = Primary
               PROVE  i \in 1..Len(c.log) /\ c.log[i] = Primary
    BY <1>2
  <2>1. i # Len(c.log) + 1
    BY <1>1, <1>2
  <2>2. i \in 1..Len(c.log)
    BY <1>2, <2>1
  <2> QED BY <1>2, <2>2
<1> QED BY <1>3 DEF By, AcceptedIn, GrantsOf

LEMMA PromoteSteps ==
    ASSUME IInv, NEW h \in Replicas, Promote(h)
    PROVE  IInv' /\ Kept
<1> DEFINE d == db[h]
           own == Logged(d, h)
           higher == [own EXCEPT !.epoch = 1]
           states == [higher.writerState EXCEPT ![h] = "writer"]
           e == [higher EXCEPT !.writerState = states]
<1>1. /\ mode[h] = "replica" /\ reply[h].is = "none" /\ mode[Primary] = "off" /\ elected = None
      /\ elected' = h /\ Active(d, d.enrollment)
      /\ db' = [db EXCEPT ![h] = e] /\ mode' = [mode EXCEPT ![h] = "writer"]
      /\ UNCHANGED <<candidates, accepting, file, reply, cut>>
  BY DEF Promote
<1>2. d # None /\ d \in Database /\ d.enrollment # 0 /\ h \in Hosts /\ h # None
  BY <1>1, ReplicaIs, HandTyped DEF ProcessInv
<1>3. /\ RowsOK(d) /\ IsPrefix(d.log, db[Primary].log)
      /\ By(db[Primary], cut[d.enrollment], h, d.enrollment, d)
  BY <1>1, <1>2, ReplicaIs DEF DatabaseInv
<1>4. /\ own \in Database /\ own.grants = d.grants /\ own.members = d.members
      /\ own.enrollment = d.enrollment /\ own.log = Append(d.log, h)
      /\ Len(own.log) = Len(d.log) + 1 /\ own.chain = d.chain
  BY <1>2, LoggedIs DEF SameState
<1> HIDE DEF own
<1>5. /\ higher \in Database /\ higher.epoch = 1 /\ higher.log = own.log
      /\ higher.grants = own.grants /\ higher.members = own.members
      /\ higher.enrollment = own.enrollment /\ higher.chain = own.chain
  BY <1>4, EpochIs
<1> HIDE DEF higher
<1>6. states \in [Hosts -> {"none", "writer", "fenced"}] /\ states[h] = "writer"
  BY <1>2, <1>5, DatabaseOfRows
<1> HIDE DEF states
<1>7. /\ e \in Database /\ e.epoch = 1 /\ e.log = own.log /\ e.grants = d.grants
      /\ e.enrollment = d.enrollment /\ e.chain = d.chain
  BY <1>4, <1>5, <1>6, WriterStateIs
<1> HIDE DEF e
<1>8. RowsOK(e)
  BY <1>2, <1>3, <1>4, <1>7, SameRows
<1>9. By(db[Primary], cut[d.enrollment], h, d.enrollment, e)
  BY <1>2, <1>3, <1>4, <1>7, LoggedBy
<1>10. Len(e.log) <= MaxLog + 1
  <2>1. Len(d.log) <= Len(db[Primary].log) /\ Len(db[Primary].log) <= MaxLog
    BY <1>2, <1>3, DatabaseIs, PrimaryIs, PrefixIs
  <2> QED BY <1>2, <1>4, <1>7, <2>1, DatabaseIs, PrimaryIs, ReplicaAssumption
<1>11. /\ db'[h] = e /\ mode'[h] = "writer" /\ db'[Primary] = db[Primary] /\ e # None
       /\ "writer" \in Modes /\ reply' = [reply EXCEPT ![h] = reply[h]] /\ reply[h] \in InHand
  BY <1>1, <1>7, ReplicaIs, NoneAssumption DEF Typed, Modes
<1>12. ProcessInv(h)'
  BY <1>1, <1>2, <1>7, <1>11 DEF ProcessInv
<1>13. DatabaseInv(h)'
  BY <1>1, <1>7, <1>8, <1>9, <1>10, <1>11 DEF DatabaseInv
<1>14. CopiesInv(h)'
  BY <1>1, <1>11, ReplicaIs DEF CopiesInv
<1>15. DenialInv(h)'
  BY <1>1, <1>11 DEF DenialInv
<1>16. Grown(d, e)
  BY <1>2, <1>4, <1>7, LoggedGrown
<1>17. ~Denial(h)
  BY <1>1 DEF Denial, Active
<1> QED
  BY <1>1, <1>7, <1>11, <1>12, <1>13, <1>14, <1>15, <1>16, <1>17, ReplicaStep DEF ReplicaInv

\* The one that was elected writes, or is stopped.
LEMMA WriterSteps ==
    ASSUME IInv, NEW h \in Replicas, Write(h) \/ LosesQuorum(h)
    PROVE  IInv' /\ Kept
<1> DEFINE d == db[h]
<1>1. /\ mode[h] \in {"writer", "resuming"}
      /\ UNCHANGED <<candidates, accepting, file, reply, elected, cut>>
  BY DEF Write, LosesQuorum
<1>2. /\ elected = h /\ d # None /\ d \in Database /\ d.enrollment # 0 /\ h \in Hosts
      /\ reply[h].is \notin {"pong", "denied", "copy", "enrollment"}
  BY <1>1, ReplicaIs, HandTyped DEF ProcessInv
<1>3. /\ RowsOK(d) /\ d.epoch = 1 /\ Len(d.log) <= MaxLog + 1
      /\ By(db[Primary], cut[d.enrollment], h, d.enrollment, d)
  BY <1>2, ReplicaIs DEF DatabaseInv
<1>4. \E e \in Database, m \in Modes \ {"off", "installing"} :
          /\ db' = [db EXCEPT ![h] = e] /\ mode' = [mode EXCEPT ![h] = m]
          /\ e.epoch = 1 /\ e.grants = d.grants /\ e.enrollment = d.enrollment
          /\ Len(e.log) <= MaxLog + 1
          /\ By(db[Primary], cut[d.enrollment], h, d.enrollment, e) /\ Grown(d, e)
  <2>1. CASE Write(h)
    <3> DEFINE e == Logged(d, h)
    <3>1. /\ mode[h] = "writer" /\ Len(d.log) < MaxLog /\ db' = [db EXCEPT ![h] = e]
          /\ mode' = mode
      BY <2>1 DEF Write
    <3>2. /\ e \in Database /\ e.grants = d.grants /\ e.enrollment = d.enrollment
          /\ e.epoch = d.epoch /\ e.log = Append(d.log, h) /\ Len(e.log) = Len(d.log) + 1
          /\ e.chain = d.chain
      BY <1>2, LoggedIs DEF SameState
    <3> HIDE DEF e
    <3>3. By(db[Primary], cut[d.enrollment], h, d.enrollment, e)
      BY <1>2, <1>3, <3>2, LoggedBy
    <3>4. Len(e.log) <= MaxLog + 1
      BY <1>2, <3>1, <3>2, DatabaseIs, ReplicaAssumption
    <3>5. "writer" \in Modes \ {"off", "installing"} /\ mode' = [mode EXCEPT ![h] = "writer"]
      BY <3>1, ReplicaIs DEF Modes
    <3>6. Grown(d, e)
      BY <1>2, <3>2, LoggedGrown
    <3> QED BY <1>3, <3>1, <3>2, <3>3, <3>4, <3>5, <3>6
  <2>2. CASE LosesQuorum(h)
    <3> DEFINE states == [d.writerState EXCEPT ![h] = "fenced"]
               e == [d EXCEPT !.writerState = states]
               m == IF mode[h] = "writer" THEN "halted" ELSE "replica"
    <3>1. db' = [db EXCEPT ![h] = e] /\ mode' = [mode EXCEPT ![h] = m]
      BY <2>2, ReplicaIs DEF LosesQuorum
    <3>2. states \in [Hosts -> {"none", "writer", "fenced"}]
      BY <1>2, DatabaseOfRows
    <3> HIDE DEF states
    <3>3. /\ e \in Database /\ e.grants = d.grants /\ e.enrollment = d.enrollment
          /\ e.epoch = d.epoch /\ e.log = d.log /\ e.chain = d.chain
      BY <1>2, <3>2, WriterStateIs
    <3> HIDE DEF e
    <3>4. By(db[Primary], cut[d.enrollment], h, d.enrollment, e)
      BY <1>3, <3>3, SameBy
    <3>5. m \in Modes \ {"off", "installing"}
      BY DEF Modes
    <3> HIDE DEF m
    <3>6. Grown(d, e)
      BY <1>2, <3>3, SameGrown
    <3> QED BY <1>3, <3>1, <3>3, <3>4, <3>5, <3>6
  <2> QED BY <2>1, <2>2
<1>5. PICK e \in Database, m \in Modes \ {"off", "installing"} :
          /\ db' = [db EXCEPT ![h] = e] /\ mode' = [mode EXCEPT ![h] = m]
          /\ e.epoch = 1 /\ e.grants = d.grants /\ e.enrollment = d.enrollment
          /\ Len(e.log) <= MaxLog + 1
          /\ By(db[Primary], cut[d.enrollment], h, d.enrollment, e) /\ Grown(d, e)
  BY <1>4
<1>6. RowsOK(e)
  BY <1>2, <1>3, <1>5, SameRows
<1>7. /\ db'[h] = e /\ mode'[h] = m /\ db'[Primary] = db[Primary] /\ e # None
      /\ reply' = [reply EXCEPT ![h] = reply[h]] /\ reply[h] \in InHand
  BY <1>1, <1>5, ReplicaIs, NoneAssumption DEF Typed
<1>8. ProcessInv(h)'
  BY <1>1, <1>2, <1>5, <1>7 DEF ProcessInv
<1>9. DatabaseInv(h)'
  BY <1>1, <1>2, <1>5, <1>6, <1>7 DEF DatabaseInv
<1>10. CopiesInv(h)'
  BY <1>1, <1>2, <1>5, <1>7, ReplicaIs DEF CopiesInv
<1>11. DenialInv(h)'
  BY <1>1, <1>2, <1>7 DEF DenialInv
<1>12. ~Denial(h)
  BY <1>2 DEF Denial
<1> QED BY <1>1, <1>5, <1>7, <1>8, <1>9, <1>10, <1>11, <1>12, ReplicaStep DEF ReplicaInv

LEMMA ReplicaProcessSteps ==
    ASSUME IInv, NEW h \in Replicas, Resume(h) \/ Crash(h)
    PROVE  IInv' /\ Kept
<1>1. /\ UNCHANGED <<db, candidates, accepting, file, elected, cut>>
      /\ db' = [db EXCEPT ![h] = db[h]] /\ db[h] \in Database \cup {None}
      /\ db[h] # None => Grown(db[h], db[h])
  BY ReplicaIs DEF Resume, Crash
<1>2. CASE Resume(h)
  <2>1. /\ mode[h] = "resuming" /\ mode' = [mode EXCEPT ![h] = "writer"] /\ mode'[h] = "writer"
        /\ reply' = [reply EXCEPT ![h] = reply[h]] /\ reply[h] \in InHand /\ "writer" \in Modes
        /\ reply'[h] = reply[h]
    BY <1>2, ReplicaIs DEF Resume, Typed, Modes
  <2>2. ProcessInv(h)' /\ DatabaseInv(h)' /\ CopiesInv(h)' /\ DenialInv(h)'
    BY <1>1, <2>1, ReplicaIs DEF ProcessInv, DatabaseInv, CopiesInv, DenialInv
  <2>3. ~Denial(h)
    BY <2>1, ReplicaIs DEF Denial, ProcessInv
  <2> QED BY <1>1, <2>1, <2>2, <2>3, ReplicaStep DEF ReplicaInv
<1>3. CASE Crash(h)
  <2>1. /\ mode' = [mode EXCEPT ![h] = "off"] /\ mode'[h] = "off" /\ "off" \in Modes
        /\ reply' = [reply EXCEPT ![h] = NoReply] /\ reply'[h] = NoReply
    BY <1>3, ReplicaIs DEF Crash, Typed, Modes
  <2>2. ProcessInv(h)' /\ DatabaseInv(h)' /\ CopiesInv(h)' /\ DenialInv(h)'
    BY <1>1, <2>1, ReplicaIs, HandIs DEF ProcessInv, DatabaseInv, CopiesInv, DenialInv
  <2>3. Denial(h) => Denial(h)'
    BY <1>1, <2>1, HandIs DEF Denial
  <2> QED BY <1>1, <2>1, <2>2, <2>3, HandIs, ReplicaStep DEF ReplicaInv
<1> QED BY <1>2, <1>3

(***************************************************************************)
(* The invariant of the specification.                                     *)
(***************************************************************************)
LEMMA InitInv == Init => IInv
<1> SUFFICES ASSUME Init PROVE IInv
  OBVIOUS
<1> DEFINE states == [x \in Hosts |-> IF x = Primary THEN "writer" ELSE "none"]
           d == [epoch |-> 0, log |-> <<>>, grants |-> <<>>, members |-> Replicas,
                 writerState |-> states, enrollment |-> 0, chain |-> 0]
<1>1. /\ db = [h \in Hosts |-> IF h # Primary THEN None ELSE d]
      /\ mode = [h \in Hosts |-> IF h = Primary THEN "writer" ELSE "off"]
      /\ candidates = {} /\ accepting = [h \in Replicas |-> 0]
      /\ file = [h \in Replicas |-> None] /\ reply = [h \in Replicas |-> NoReply]
      /\ elected = None /\ cut = [g \in Grants |-> None]
  BY DEF Init
<1>2. Primary \in Hosts /\ \A h \in Replicas : h \in Hosts /\ h # Primary /\ h # None
  BY ReplicaAssumption DEF Hosts
<1>3. states \in [Hosts -> {"none", "writer", "fenced"}] /\ \A r \in Replicas : states[r] = "none"
  BY <1>2
<1> HIDE DEF states
<1>4. /\ <<>> \in Seq(Hosts) /\ <<>> \in Seq(Row) /\ 0 \in 0..MaxGrants /\ 0 \in 0..MaxChain
      /\ DOMAIN <<>> = {} /\ Len(<<>>) = 0
  BY ReplicaAssumption
<1>5. d \in Database /\ d.log = <<>> /\ d.grants = <<>> /\ d.epoch = 0 /\ d.enrollment = 0
      /\ d.writerState = states
  BY <1>3, <1>4, DatabaseOfRows
<1> HIDE DEF d
<1>6. RowsOK(d)
  BY <1>4, <1>5 DEF RowsOK
<1>7. db[Primary] = d /\ \A h \in Replicas : db[h] = None /\ mode[h] = "off"
  BY <1>1, <1>2
<1>8. Typed
  BY <1>1, <1>2, <1>5, <1>7, HandIs, ReplicaAssumption DEF Typed, Modes
<1>9. PrimaryInv
  BY <1>1, <1>3, <1>4, <1>5, <1>6, <1>7, ReplicaAssumption DEF PrimaryInv
<1>10. ASSUME NEW h \in Replicas PROVE ReplicaInv(h)
  BY <1>1, <1>2, <1>7, HandIs DEF ReplicaInv, ProcessInv, DatabaseInv, CopiesInv, DenialInv
<1> QED BY <1>8, <1>9, <1>10 DEF IInv

LEMMA NextInv == IInv /\ Next => IInv' /\ Kept
<1> SUFFICES ASSUME IInv, Next PROVE IInv' /\ Kept
  OBVIOUS
<1>1. ASSUME NEW h \in Replicas,
             \/ RegisterCandidate(h) \/ CreateGrant(h) \/ Enroll(h) \/ RemoveMember(h)
      PROVE  IInv' /\ Kept
  BY <1>1, CandidateSteps, CreateSteps, EnrollSteps, RemoveSteps
<1>2. ASSUME NEW h \in Replicas, Install(h) \/ Stamp(h) \/ Boot(h) \/ CommitRecord(h)
      PROVE  IInv' /\ Kept
  BY <1>2, InstallSteps, StampSteps, BootSteps, CommitSteps
<1>3. ASSUME NEW h \in Replicas, LoopNext(h) \/ SnapshotFails(h) \/ Promote(h)
      PROVE  IInv' /\ Kept
  BY <1>3, AnswerSteps, ApplySteps, DeniedSteps, PromoteSteps DEF LoopNext
<1>4. ASSUME NEW g \in Grants, AcceptGrant(g) \/ RevokeGrant(g)
      PROVE  IInv' /\ Kept
  BY <1>4, AcceptSteps, RevokeSteps
<1>5. ASSUME NEW h \in Hosts, Write(h) \/ LosesQuorum(h) \/ Resume(h) \/ Crash(h)
      PROVE  IInv' /\ Kept
  <2>1. CASE h = Primary
    BY <1>5, <2>1, PrimaryWriteSteps, PrimaryFencedSteps, PrimaryProcessSteps
  <2>2. CASE h \in Replicas
    BY <1>5, <2>2, WriterSteps, ReplicaProcessSteps
  <2> QED BY <2>1, <2>2 DEF Hosts
<1>6. CASE ObserveHigherEpoch \/ PrimaryBoot
  BY <1>6, PrimaryFencedSteps, PrimaryProcessSteps
<1> QED BY <1>1, <1>2, <1>3, <1>4, <1>5, <1>6 DEF Next

LEMMA StutterInv == IInv /\ UNCHANGED vars => IInv' /\ \A h \in Replicas : Denial(h) => Denial(h)'
BY DEF vars, IInv, Typed, PrimaryInv, ReplicaInv, ProcessInv, DatabaseInv, CopiesInv, DenialInv,
       Denial

THEOREM ReplicaInvariant == Spec => []IInv
<1>1. IInv /\ [Next]_vars => IInv'
  BY NextInv, StutterInv
<1> QED BY <1>1, InitInv, PTL DEF Spec

(***************************************************************************)
(* The theorems.                                                           *)
(***************************************************************************)
\* A bound on the indices that are the primary's is one on how many there are.
LEMMA EntriesBounded ==
    ASSUME NEW log \in Seq(Hosts), NEW n \in Nat, \A i \in DOMAIN log : log[i] = Primary => i <= n
    PROVE  Cardinality({i \in DOMAIN log : log[i] = Primary}) <= n
<1> DEFINE own == {i \in DOMAIN log : log[i] = Primary}
<1>1. own \subseteq 1..n
  BY LenProperties
<1>2. IsFiniteSet(1..n) /\ Cardinality(1..n) = n
  BY FS_Interval
<1> HIDE DEF own
<1>3. Cardinality(own) <= Cardinality(1..n)
  BY <1>1, <1>2, FS_Subset
<1> QED BY <1>2, <1>3 DEF own

\* What a database of a replica is, whether it was elected or not.
LEMMA DatabaseHolds ==
    ASSUME IInv, NEW h \in Hosts, db[h] # None
    PROVE  /\ db[h] \in Database /\ RowsOK(db[h]) /\ Len(db[h].log) <= MaxLog + 1
           /\ db[h].enrollment # 0 =>
                 /\ h \in Replicas /\ h # Primary
                 /\ By(db[Primary], cut[db[h].enrollment], h, db[h].enrollment, db[h])
<1>1. CASE h = Primary
  <2>1. db[Primary].enrollment = 0 /\ Len(db[Primary].log) <= MaxLog + 1
    BY PrimaryIs, DatabaseIs, ReplicaAssumption DEF IInv, PrimaryInv
  <2> QED BY <1>1, <2>1, PrimaryIs
<1>2. CASE h \in Replicas
  <2>1. db[h] \in Database /\ DatabaseInv(h) /\ h # Primary
    BY <1>2, ReplicaIs
  <2>2. Len(db[h].log) <= MaxLog + 1
    <3>1. CASE h = elected
      BY <2>1, <3>1 DEF DatabaseInv
    <3>2. CASE h # elected
      <4>1. Len(db[h].log) <= Len(db[Primary].log)
        BY <2>1, <3>2, DatabaseIs, PrimaryIs, PrefixIs DEF DatabaseInv
      <4> QED BY <2>1, <4>1, DatabaseIs, PrimaryIs, ReplicaAssumption
    <3> QED BY <3>1, <3>2
  <2> QED BY <1>2, <2>1, <2>2 DEF DatabaseInv
<1> QED BY <1>1, <1>2 DEF Hosts

\* A grant that was revoked or replaced, or whose member is out, opens nothing more of what the
\* primary writes, and the rows and enrollments are what their operations make of them: of any
\* number of members, however often a process stops or an answer is lost.
THEOREM GrantsStayClosed == Spec => []GrantsHold
<1>1. ASSUME IInv PROVE TypeOK
  <2>1. ASSUME NEW h \in Hosts, db[h] # None
        PROVE  /\ db[h] \in Database /\ Len(db[h].log) <= MaxLog + 1
               /\ \A g \in DOMAIN db[h].grants : db[h].grants[g].enrolled => db[h].grants[g].accepted
               /\ \A r \in Replicas : Cardinality({g \in GrantsOf(db[h], r) : Active(db[h], g)}) <= 1
               /\ db[h].enrollment # 0 =>
                     /\ h # Primary /\ db[h].enrollment \in GrantsOf(db[h], h)
                     /\ db[h].grants[db[h].enrollment].accepted
    <3>1. /\ db[h] \in Database /\ RowsOK(db[h]) /\ Len(db[h].log) <= MaxLog + 1
          /\ db[h].enrollment # 0 =>
                /\ h # Primary
                /\ By(db[Primary], cut[db[h].enrollment], h, db[h].enrollment, db[h])
      BY <1>1, <2>1, DatabaseHolds
    <3>2. \A r \in Replicas : Cardinality({g \in GrantsOf(db[h], r) : Active(db[h], g)}) <= 1
      BY <3>1, OneActive
    <3> QED BY <3>1, <3>2 DEF RowsOK, By, AcceptedIn
  <2>2. \A h \in Replicas : mode[h] \notin {"off", "installing"} => db[h].enrollment # 0
    BY <1>1 DEF IInv, ReplicaInv, ProcessInv
  <2> QED BY <2>1, <2>2 DEF TypeOK
<1>2. ASSUME IInv PROVE RemovedLearnNothing
  <2> SUFFICES ASSUME NEW h \in Replicas, db[h] # None, db[h].enrollment # 0,
                      cut[db[h].enrollment] # None
               PROVE  Cardinality({i \in DOMAIN db[h].log : db[h].log[i] = Primary})
                          <= cut[db[h].enrollment]
    BY DEF RemovedLearnNothing
  <2>1. /\ db[h] \in Database /\ db[h].enrollment \in Grants
        /\ By(db[Primary], cut[db[h].enrollment], h, db[h].enrollment, db[h])
    BY <1>2, DatabaseHolds, HandTyped DEF Hosts, IInv
  <2>2. /\ cut[db[h].enrollment] \in Nat
        /\ \A i \in DOMAIN db[h].log : db[h].log[i] = Primary => i <= cut[db[h].enrollment]
    BY <1>2, <2>1 DEF By, IInv, Typed
  <2> QED BY <2>1, <2>2, DatabaseIs, EntriesBounded
<1>3. IInv => GrantsHold
  BY <1>1, <1>2 DEF GrantsHold
<1> QED BY <1>3, ReplicaInvariant, PTL

\* No crash, restart, snapshot or promotion takes an entry out of an op_log or a record out of
\* the chain a replica has registered.
THEOREM NothingIsLost == Spec => ReplicaIsKept
<1>1. IInv /\ [Next]_vars =>
          [\A h \in Hosts : db[h] # None => db'[h] # None /\ IsPrefix(db[h].log, db'[h].log)]_vars
  BY NextInv DEF Kept
<1>2. IInv /\ [Next]_vars => [\A h \in Replicas : db[h] # None => db'[h].chain >= db[h].chain]_vars
  BY NextInv DEF Kept
<1>3. Spec => HistoryGrows
  BY <1>1, ReplicaInvariant, PTL DEF HistoryGrows, Spec
<1>4. Spec => ChainSurvives
  BY <1>2, ReplicaInvariant, PTL DEF ChainSurvives, Spec
<1> QED BY <1>3, <1>4 DEF ReplicaIsKept

\* A writer among the replicas is the one that was elected, whatever its copy says of whom, and
\* none that was told of the denial of its grant ever is one.
THEOREM CopiesGiveNoAuthority == Spec => WritersAreElected
<1>1. IInv => OnlyElectedWrite
  BY DEF IInv, ReplicaInv, ProcessInv, OnlyElectedWrite
<1>2. Spec => []OnlyElectedWrite
  BY <1>1, ReplicaInvariant, PTL
<1>3. ASSUME NEW h \in Replicas
      PROVE  Spec => [](mode[h] = "halted" /\ elected # h => [](mode[h] \notin {"writer", "resuming"}))
  <2>1. IInv /\ mode[h] = "halted" /\ elected # h => Denial(h)
    BY DEF IInv, ReplicaInv, DenialInv
  <2>2. IInv /\ Denial(h) /\ [Next]_vars => Denial(h)'
    BY NextInv, StutterInv DEF Kept
  <2>3. IInv /\ Denial(h) => mode[h] \notin {"writer", "resuming"}
    BY DEF IInv, ReplicaInv, ProcessInv, Denial
  <2> QED BY <2>1, <2>2, <2>3, ReplicaInvariant, PTL DEF Spec
<1>4. Spec => DeniedNeverWrites
  BY <1>3 DEF DeniedNeverWrites
<1> QED BY <1>2, <1>4 DEF WritersAreElected
=============================================================================
